---- MODULE Spec2Model ----
(***************************************************************************)
(* VeoVerse: the long-running-operation poller (utils.poll_operation) and  *)
(* the scene-extension workflow (VeoVideoExtension.extend_from_scenes,     *)
(* generate_scene), with the helpers they call (validate_parameters,       *)
(* download_video).  The remote generation service is the environment: it  *)
(* answers submit, refresh and download calls nondeterministically.        *)
(***************************************************************************)
EXTENDS Integers, Sequences, FiniteSets, TLC

(* ------------------------------------------------------------------ *)
(* config.py                                                            *)
(* ------------------------------------------------------------------ *)
MAX_POLL_ATTEMPTS == 180
POLL_INTERVAL_SECONDS == 10
MAX_EXTENSIONS == 20
DEFAULT_MODEL == "veo-3.1-generate-preview"
DEFAULT_ASPECT_RATIO == "16:9"
DEFAULT_RESOLUTION == "720p"
DEFAULT_DURATION_SECONDS == 8
SUPPORTED_MODELS ==
    {"veo-3.1-generate-preview", "veo-3.1-fast-generate-preview",
     "veo-3.0-generate-001", "veo-3.0-fast-generate-001", "veo-2.0-generate-001"}
SUPPORTED_ASPECT_RATIOS == {"16:9", "9:16"}
SUPPORTED_RESOLUTIONS == {"720p", "1080p"}
SUPPORTED_DURATIONS == {4, 6, 8}

(* ------------------------------------------------------------------ *)
(* Bounds and input domains                                             *)
(* ------------------------------------------------------------------ *)
\* Longest scene list handed to extend_from_scenes (one past the limit of 21).
MaxScenes == 22

\* Python's None for string-valued names, and for the video reference.
None == "None"
NoVideo == 0

\* A dict with no keys.
EmptyDict == [k \in {} |-> k]

\* The values a scene's "params" dict may give each key; every key is optional.
AspectDicts == {EmptyDict} \cup {[aspect_ratio |-> v] : v \in {"16:9", "9:16", "4:3"}}
ResolutionDicts == {EmptyDict} \cup {[resolution |-> v] : v \in {"720p", "1080p", "4k"}}
DurationDicts == {EmptyDict} \cup {[duration_seconds |-> v] : v \in {4, 6, 8, 5}}
ParamsDicts == {a @@ r @@ d : a \in AspectDicts, r \in ResolutionDicts, d \in DurationDicts}

\* A scene dict: "prompt" present (a text), empty, or the key missing; "params"
\* present or missing.
PromptDicts == {EmptyDict} \cup {[prompt |-> v] : v \in {"", "a scene"}}
SceneDicts ==
    {p @@ q : p \in PromptDicts,
              q \in {EmptyDict} \cup {[params |-> d] : d \in ParamsDicts}}

\* What the provider puts in a failed operation's error field, and the faults a
\* remote call can raise.
ErrorPayloads == {"quota exceeded", "content blocked"}
Faults == {"APIError"}
\* The shapes of a completed operation's response: no response object, a
\* response whose generated_videos is empty, or one holding a video.
Responses == {"none", "empty", "videos"}

\* The output_filename argument, as the sequence of its pieces: not given (None
\* and the empty string are both false), a plain name, or the parent directory.
NoFilename == <<>>
OutputFilenames == {NoFilename, <<"final.mp4">>, <<"..">>}

\* Longest "scenes" array (or other sized value) in a scenes file.
MaxFileScenes == 2

\* The optional arguments of generate_video / generate_video_with_image that the
\* caller passes by keyword; an argument left out (or passed as None) is no key.
ModelDicts == {EmptyDict} \cup {[model |-> v] : v \in {"veo-9-experimental"}}
GenDurationDicts == {EmptyDict} \cup {[duration_seconds |-> v] : v \in {0, 4, 6, 8, 5}}
NegativePromptDicts == {EmptyDict} \cup {[negative_prompt |-> v] : v \in {"blurry"}}
SeedDicts == {EmptyDict} \cup {[seed |-> v] : v \in {0}}
GenParamsDicts ==
    {a @@ r @@ d @@ m @@ n @@ sd :
        a \in AspectDicts, r \in ResolutionDicts, d \in GenDurationDicts,
        m \in ModelDicts, n \in NegativePromptDicts, sd \in SeedDicts}

\* The prompt argument: None, empty, whitespace only, or a text.
PromptArgs == {None, "", "   ", "A cinematic shot of a lion"}

\* What image_path names: nothing (an empty path), no file, a directory, a file
\* PIL cannot open as an image, or an image.
ImageArgs == {"", "missing", "directory", "undecodable", "image"}
NoImage == "n/a"

\* The calls of the two single-video entry points.
GenArgs ==
    {[call |-> "generate_video", prompt |-> p, image |-> NoImage, params |-> d] :
        p \in PromptArgs, d \in GenParamsDicts}
    \cup {[call |-> "generate_video_with_image", prompt |-> p, image |-> i, params |-> d] :
        p \in PromptArgs, i \in ImageArgs, d \in GenParamsDicts}

\* What scenes_file names: nothing (an empty path), no file, a directory, a file
\* that cannot be read, one that is not JSON, or a JSON document.
ScenesFileStates == {"", "missing", "directory", "unreadable", "bad_json", "json"}
\* A JSON value as far as the loader looks at it: its type and its size (the
\* length of an array, string or object, the value of a number, 0 for null).
JsonTypes == {"dict", "list", "str", "int", "null"}
JsonValues ==
    {[type |-> t, size |-> n] : t \in JsonTypes \ {"null"}, n \in 0..MaxFileScenes}
    \cup {[type |-> "null", size |-> 0]}
NoJson == [type |-> "missing", size |-> 0]

\* The calls of extend_from_scenes_file: the file, the type of the document's top
\* level, and the value under its "scenes" key (NoJson when the key is missing).
FileArgs ==
    {[call |-> "extend_from_scenes_file", file |-> f, top |-> "null", scenes |-> NoJson] :
        f \in ScenesFileStates \ {"json"}}
    \cup {[call |-> "extend_from_scenes_file", file |-> "json", top |-> t, scenes |-> NoJson] :
        t \in JsonTypes}
    \cup {[call |-> "extend_from_scenes_file", file |-> "json", top |-> "dict", scenes |-> v] :
        v \in JsonValues}

VARIABLES
    args,             \* the other arguments of the entry point called, while the code reads them
    disk,             \* the paths under the output root at which a file exists
    nScenes,          \* len(scenes), the argument of extend_from_scenes
    output_filename,  \* the output_filename argument
    pc,               \* position of the single thread of control
    scene_number,     \* extend_from_scenes: 1-based loop counter
    video_object,     \* extend_from_scenes: artifact of the previous scene
    scene,            \* <<the scene dict being submitted>> while its submit call is open
    inflight,         \* <<the generate_videos request>> while the submit call is open
    operation,        \* the operation handle held by generate_scene / poll_operation
    attempts,         \* poll_operation: attempt counter
    raised,           \* the exception that ended the call, if any
    returned,         \* the path extend_from_scenes returned, if any
    result,           \* what a helper (or main, as exit code) returned, if any
    files,            \* files written under the output root by this call
    \* history of the run, read by the properties only
    submits,          \* generate_videos calls issued
    sleeps,           \* time.sleep calls of the current poll_operation call
    slept,            \* seconds slept in these calls
    refreshes,        \* client.operations.get calls of the current poll_operation call
    faults,           \* of these, the calls that raised
    doneAt,           \* value of refreshes when the handle first showed done
    pollsReturned,    \* poll_operation calls that returned a handle
    pending,          \* ids of submitted operations not yet seen done
    downloads,        \* client.files.download calls issued
    downloaded,       \* the artifact passed to the last download call
    spent             \* status calls of the poll_operation calls that returned before

vars == <<args, disk, nScenes, output_filename, pc, scene_number, video_object, scene, inflight,
          operation, attempts, raised, returned, result, files, submits, sleeps, slept,
          refreshes, faults, doneAt, pollsReturned, pending, downloads, downloaded,
          spent>>

pollVars == <<operation, attempts, sleeps, slept, refreshes, faults, doneAt>>
chainVars == <<args, disk, nScenes, output_filename, scene_number, video_object, scene, inflight,
               returned, files, submits, pending, downloads, downloaded>>

(* ------------------------------------------------------------------ *)
(* Values                                                               *)
(* ------------------------------------------------------------------ *)
NoError == "None"
NoOperation == [id |-> 0, done |-> FALSE, error |-> NoError, response |-> "none"]
NoPath == [dir |-> "", name |-> <<>>]
NoArgs == [call |-> "none"]
NoResult == [kind |-> "none"]
\* The entry points that run the scene loop, and those that generate one video.
ChainCalls == {"extend_from_scenes", "extend_from_scenes_file"}
GenCalls == {"generate_video", "generate_video_with_image"}
NoExc == [kind |-> "none", text |-> "", cause |-> "", scene |-> 0]
Exc(kind, text, cause, n) == [kind |-> kind, text |-> text, cause |-> cause, scene |-> n]

\* Python truthiness of a string-or-None value and of a number.
TruthyStr(v) == v # None /\ v # ""
TruthyInt(n) == n # 0

\* dict.get(key, default)
Get(d, key, default) == IF key \in DOMAIN d THEN d[key] ELSE default

\* The handles the service can report for operation id: still running, failed
\* with an error payload, or completed with one of the response shapes.
Running(id) == [id |-> id, done |-> FALSE, error |-> NoError, response |-> "none"]
Handles(id) ==
    {Running(id)}
    \cup {[id |-> id, done |-> TRUE, error |-> e, response |-> "none"] : e \in ErrorPayloads}
    \cup {[id |-> id, done |-> TRUE, error |-> NoError, response |-> r] : r \in Responses}

\* client.operations.get(operation): the status of the same operation; a
\* completed operation stays as it is.
RefreshResults(op) == IF op.done THEN {op} ELSE Handles(op.id)

(* ------------------------------------------------------------------ *)
(* utils.poll_operation                                                 *)
(* ------------------------------------------------------------------ *)
\* while not operation.done
WhileNotDone(op) == ~op.done

\* Variants of the bound test: off by one, and no bound at all.
AttemptsExhaustedLate(n) == n > MAX_POLL_ATTEMPTS
AttemptsNeverExhausted(n) == FALSE

\* Variant of the bound test: one attempt short.
AttemptsExhaustedEarly(n) == n >= MAX_POLL_ATTEMPTS - 1

\* if attempts >= MAX_POLL_ATTEMPTS
AttemptsExhausted(n) == n >= MAX_POLL_ATTEMPTS

\* Variant: the error field is not inspected.
HasErrorUnchecked(op) == FALSE

\* hasattr(operation, 'error') and operation.error
HasError(op) == op.error # NoError

\* f"Video generation failed: {error_msg}"
OperationFailure(op) == Exc("RuntimeError", "Video generation failed", op.error, 0)

\* f"Failed to poll operation: {e}"
RefreshFailure(fault) == Exc("RuntimeError", "Failed to poll operation", fault, 0)

\* f"Video generation timed out after {MAX_POLL_ATTEMPTS * POLL_INTERVAL_SECONDS} seconds"
PollTimeoutError == Exc("TimeoutError", "Video generation timed out", "", 0)

\* Variant: the counter is not set on entry, it goes on from where it stood.
PollEnterKeepsCount ==
    /\ pc = "poll_call"
    /\ sleeps' = 0
    /\ slept' = 0
    /\ refreshes' = 0
    /\ faults' = 0
    /\ doneAt' = 0
    /\ pc' = "poll_head"
    /\ UNCHANGED <<operation, attempts, raised, pollsReturned>>
    /\ UNCHANGED chainVars
    /\ UNCHANGED result
    /\ UNCHANGED spent

\* Entry of poll_operation: the argument checks and attempts = 0.
PollEnter ==
    /\ pc = "poll_call"
    /\ attempts' = 0
    /\ sleeps' = 0
    /\ slept' = 0
    /\ refreshes' = 0
    /\ faults' = 0
    /\ doneAt' = 0
    /\ pc' = "poll_head"
    /\ UNCHANGED <<operation, raised, pollsReturned>>
    /\ UNCHANGED chainVars
    /\ UNCHANGED result
    /\ UNCHANGED spent

\* Variant: the loop body runs without looking at operation.done.
PollSleepAlways ==
    /\ pc = "poll_head"
    /\ ~AttemptsExhausted(attempts)
    /\ sleeps' = sleeps + 1
    /\ slept' = slept + POLL_INTERVAL_SECONDS
    /\ pc' = "poll_slept"
    /\ UNCHANGED <<operation, attempts, refreshes, faults, doneAt, raised, pollsReturned>>
    /\ UNCHANGED chainVars
    /\ UNCHANGED result
    /\ UNCHANGED spent

\* Variant: the loop body goes to the status call without sleeping.
PollSleepSkipped ==
    /\ pc = "poll_head"
    /\ WhileNotDone(operation)
    /\ ~AttemptsExhausted(attempts)
    /\ pc' = "poll_slept"
    /\ UNCHANGED <<operation, attempts, sleeps, slept, refreshes, faults, doneAt, raised,
                   pollsReturned>>
    /\ UNCHANGED chainVars
    /\ UNCHANGED result
    /\ UNCHANGED spent

\* Loop head with the handle not done and attempts left: log, time.sleep.
PollSleep ==
    /\ pc = "poll_head"
    /\ WhileNotDone(operation)
    /\ ~AttemptsExhausted(attempts)
    /\ sleeps' = sleeps + 1
    /\ slept' = slept + POLL_INTERVAL_SECONDS
    /\ pc' = "poll_slept"
    /\ UNCHANGED <<operation, attempts, refreshes, faults, doneAt, raised, pollsReturned>>
    /\ UNCHANGED chainVars
    /\ UNCHANGED result
    /\ UNCHANGED spent

\* Variant: a status call that raises is logged and the loop goes on.
PollRefreshSkipFault ==
    /\ pc = "poll_slept"
    /\ refreshes' = refreshes + 1
    /\ \/ \E op \in RefreshResults(operation) :
            /\ operation' = op
            /\ attempts' = attempts + 1
            /\ doneAt' = IF op.done /\ ~operation.done THEN refreshes + 1 ELSE doneAt
            /\ pending' = IF op.done THEN pending \ {op.id} ELSE pending
            /\ UNCHANGED faults
       \/ /\ faults' = faults + 1
          /\ attempts' = attempts + 1
          /\ UNCHANGED <<operation, doneAt, pending>>
    /\ pc' = "poll_head"
    /\ UNCHANGED <<raised, sleeps, slept, pollsReturned>>
    /\ UNCHANGED <<args, disk, nScenes, output_filename, scene_number, video_object, scene, inflight,
                   returned, files, submits, downloads, downloaded>>
    /\ UNCHANGED result
    /\ UNCHANGED spent

\* operation = client.operations.get(operation); attempts += 1 -- or the call
\* raises and is wrapped in RuntimeError.
PollRefresh ==
    /\ pc = "poll_slept"
    /\ refreshes' = refreshes + 1
    /\ \/ \E op \in RefreshResults(operation) :
            /\ operation' = op
            /\ attempts' = attempts + 1
            /\ doneAt' = IF op.done /\ ~operation.done THEN refreshes + 1 ELSE doneAt
            /\ pending' = IF op.done THEN pending \ {op.id} ELSE pending
            /\ pc' = "poll_head"
            /\ UNCHANGED <<raised, faults>>
       \/ \E fault \in Faults :
            /\ raised' = RefreshFailure(fault)
            /\ faults' = faults + 1
            /\ pc' = "failed"
            /\ UNCHANGED <<operation, attempts, doneAt, pending>>
    /\ UNCHANGED <<sleeps, slept, pollsReturned>>
    /\ UNCHANGED <<args, disk, nScenes, output_filename, scene_number, video_object, scene, inflight,
                   returned, files, submits, downloads, downloaded>>
    /\ UNCHANGED result
    /\ UNCHANGED spent

\* Loop head with the handle not done and no attempts left: TimeoutError.
PollTimeout ==
    /\ pc = "poll_head"
    /\ WhileNotDone(operation)
    /\ AttemptsExhausted(attempts)
    /\ raised' = PollTimeoutError
    /\ pc' = "failed"
    /\ UNCHANGED <<pollsReturned>>
    /\ UNCHANGED pollVars
    /\ UNCHANGED chainVars
    /\ UNCHANGED result
    /\ UNCHANGED spent

\* The loop is left: raise on the handle's error, else return the handle.
PollFinish ==
    /\ pc = "poll_head"
    /\ ~WhileNotDone(operation)
    /\ \/ /\ HasError(operation)
          /\ raised' = OperationFailure(operation)
          /\ pc' = "failed"
          /\ UNCHANGED pollsReturned
       \/ /\ ~HasError(operation)
          /\ pollsReturned' = pollsReturned + 1
          /\ pc' = "poll_returned"
          /\ UNCHANGED raised
    /\ UNCHANGED pollVars
    /\ UNCHANGED chainVars
    /\ UNCHANGED result
    /\ UNCHANGED spent

\* One call of poll_operation on a handle in any state the service can report.
InitPoll ==
    /\ args = [call |-> "poll_operation"]
    /\ disk = {}
    /\ nScenes = 0
    /\ output_filename = NoFilename
    /\ pc = "poll_call"
    /\ scene_number = 0
    /\ video_object = NoVideo
    /\ scene = <<>>
    /\ inflight = <<>>
    /\ operation \in Handles(1)
    /\ attempts = 0
    /\ raised = NoExc
    /\ returned = NoPath
    /\ files = {}
    /\ submits = 1
    /\ sleeps = 0
    /\ slept = 0
    /\ refreshes = 0
    /\ faults = 0
    /\ doneAt = 0
    /\ pollsReturned = 0
    /\ pending = IF operation.done THEN {} ELSE {1}
    /\ downloads = 0
    /\ downloaded = NoVideo
    /\ result = NoResult
    /\ spent = 0

NextPoll == PollEnter \/ PollSleep \/ PollRefresh \/ PollTimeout \/ PollFinish

\* The loop runs on one thread: sleep returns and a status call returns or raises.
SpecPoll == InitPoll /\ [][NextPoll]_vars /\ WF_vars(NextPoll)

(* ------------------------------------------------------------------ *)
(* poll_operation called for one operation after the other              *)
(* ------------------------------------------------------------------ *)
\* Most poll_operation calls one caller makes in a row.
MaxPolls == 2

\* The caller goes on to its next operation, as generate_scene does for every
\* scene: it submits a request and calls poll_operation with the new handle.
\* Nothing touches what the call that returned has left behind.
PollAgain ==
    /\ pc = "poll_returned"
    /\ args.call = "poll_operations"
    /\ pollsReturned < MaxPolls
    /\ submits' = submits + 1
    /\ \E op \in Handles(submits + 1) :
         /\ operation' = op
         /\ pending' = IF op.done THEN pending ELSE pending \cup {op.id}
    /\ spent' = spent + refreshes
    /\ pc' = "poll_call"
    /\ UNCHANGED <<attempts, sleeps, slept, refreshes, faults, doneAt, raised, pollsReturned>>
    /\ UNCHANGED <<args, disk, nScenes, output_filename, scene_number, video_object, scene,
                   inflight, returned, files, downloads, downloaded>>
    /\ UNCHANGED result

\* poll_operation calls in a row, each on a handle in any state the service
\* can report.
InitPolls ==
    /\ args = [call |-> "poll_operations"]
    /\ disk = {}
    /\ nScenes = 0
    /\ output_filename = NoFilename
    /\ pc = "poll_call"
    /\ scene_number = 0
    /\ video_object = NoVideo
    /\ scene = <<>>
    /\ inflight = <<>>
    /\ operation \in Handles(1)
    /\ attempts = 0
    /\ raised = NoExc
    /\ returned = NoPath
    /\ files = {}
    /\ submits = 1
    /\ sleeps = 0
    /\ slept = 0
    /\ refreshes = 0
    /\ faults = 0
    /\ doneAt = 0
    /\ pollsReturned = 0
    /\ pending = IF operation.done THEN {} ELSE {1}
    /\ downloads = 0
    /\ downloaded = NoVideo
    /\ result = NoResult
    /\ spent = 0

NextPolls == NextPoll \/ PollAgain

SpecPolls == InitPolls /\ [][NextPolls]_vars /\ WF_vars(NextPolls)

(* ------------------------------------------------------------------ *)
(* utils.validate_parameters                                            *)
(* ------------------------------------------------------------------ *)
\* Variant: 1080p is accepted with every supported duration.
validate_parametersAnyDuration(aspect_ratio, resolution, duration_seconds, model) ==
    IF TruthyStr(aspect_ratio) /\ aspect_ratio \notin SUPPORTED_ASPECT_RATIOS
        THEN "Invalid aspect_ratio"
    ELSE IF TruthyStr(resolution) /\ resolution \notin SUPPORTED_RESOLUTIONS
        THEN "Invalid resolution"
    ELSE IF TruthyInt(duration_seconds) /\ duration_seconds \notin SUPPORTED_DURATIONS
        THEN "Invalid duration_seconds"
    ELSE "ok"

\* Variant: a model outside SUPPORTED_MODELS is an error, not a warning.
validate_parametersKnownModel(aspect_ratio, resolution, duration_seconds, model) ==
    IF TruthyStr(aspect_ratio) /\ aspect_ratio \notin SUPPORTED_ASPECT_RATIOS
        THEN "Invalid aspect_ratio"
    ELSE IF TruthyStr(resolution) /\ resolution \notin SUPPORTED_RESOLUTIONS
        THEN "Invalid resolution"
    ELSE IF TruthyInt(duration_seconds) /\ duration_seconds \notin SUPPORTED_DURATIONS
        THEN "Invalid duration_seconds"
    ELSE IF TruthyStr(model) /\ model \notin SUPPORTED_MODELS
        THEN "Invalid model"
    ELSE IF resolution = "1080p" /\ TruthyInt(duration_seconds) /\ duration_seconds # 8
        THEN "1080p resolution only supports 8 second duration"
    ELSE "ok"

\* The ValueError the validator raises, or "ok".  The model check in between
\* only prints a warning.
validate_parameters(aspect_ratio, resolution, duration_seconds, model) ==
    IF TruthyStr(aspect_ratio) /\ aspect_ratio \notin SUPPORTED_ASPECT_RATIOS
        THEN "Invalid aspect_ratio"
    ELSE IF TruthyStr(resolution) /\ resolution \notin SUPPORTED_RESOLUTIONS
        THEN "Invalid resolution"
    ELSE IF TruthyInt(duration_seconds) /\ duration_seconds \notin SUPPORTED_DURATIONS
        THEN "Invalid duration_seconds"
    ELSE IF resolution = "1080p" /\ TruthyInt(duration_seconds) /\ duration_seconds # 8
        THEN "1080p resolution only supports 8 second duration"
    ELSE "ok"

(* ------------------------------------------------------------------ *)
(* utils.generate_filename, utils.get_output_path                       *)
(* ------------------------------------------------------------------ *)
\* A file name or model name is the sequence of its pieces, the separator "/"
\* being a piece of its own; the empty sequence is the empty string.
Sep == "/"
OUTPUT_DIR == "output"

\* datetime.now().strftime("%Y%m%d_%H%M%S"): the clock, read to the second.
Seconds == {"20261103_120000", "20261103_120001"}

\* hashlib.md5(text.encode('utf-8')).hexdigest(), as its first 8 and last 24
\* hexadecimal digits, for the texts that are hashed.
Md5(text) ==
    CASE text = "A cinematic shot of a lion" -> <<"7404b88c", "15af13290438218b8b975988">>
      [] text = "img2vid_A cinematic shot of a lion" -> <<"5ebf521d", "9e49a9d7815ab5e8663ad328">>
      [] text = "A cinematic shot of a lion, take 7697" -> <<"e30ea680", "e1df4abf09529dcbcf1c57ed">>
      [] text = "A cinematic shot of a lion, take 91774" -> <<"e30ea680", "88faf7a2c9624b998a9f350e">>
      [] text = "extended_a scene" -> <<"e3d19409", "7db3057a0e125cc0d525a0ab">>
      [] text = "extended_a scene -> a scene" -> <<"22836a3b", "ece021dde417bd73752cbec8">>
      [] text = "extended_a scene -> a scene -> a scene" -> <<"b1b3e7d9", "2d6aff2eadd2cce10748c229">>

\* hexdigest()[:8]
PromptHash(text) == Md5(text)[1]

\* A model name cut at the substrings generate_filename looks for.
ModelPieces(model) ==
    CASE model = "veo-3.1-generate-preview" -> <<"veo-", "3", ".", "1", "-generate", "-preview">>
      [] model = "veo-3.1-fast-generate-preview" -> <<"veo-", "3", ".", "1", "-fast", "-generate", "-preview">>
      [] model = "veo-3.0-generate-001" -> <<"veo-", "3", ".", "0", "-generate", "-001">>
      [] model = "veo-3.0-fast-generate-001" -> <<"veo-", "3", ".", "0", "-fast", "-generate", "-001">>
      [] model = "veo-2.0-generate-001" -> <<"veo-", "2", ".", "0", "-generate", "-001">>
      [] model = "veo-9-experimental" -> <<"veo-", "9", "-experimental">>

\* str.replace(old, new) on a sequence of pieces.
RECURSIVE Replace(_, _, _)
Replace(s, old, new) ==
    IF s = <<>> THEN <<>>
    ELSE (IF Head(s) = old THEN new ELSE <<Head(s)>>) \o Replace(Tail(s), old, new)

\* Variant: the "-generate" infix is kept in the tag.
ModelCleanKeepGenerate(model) ==
    Replace(Replace(Replace(ModelPieces(model), "veo-", <<>>), "-preview", <<>>), ".", <<"_">>)

\* model.replace("veo-", "").replace("-generate", "").replace("-preview", "").replace(".", "_")
ModelClean(model) ==
    Replace(Replace(Replace(Replace(ModelPieces(model), "veo-", <<>>),
                            "-generate", <<>>), "-preview", <<>>), ".", <<"_">>)

\* extension.lstrip('.')
RECURSIVE LStripDots(_)
LStripDots(s) == IF s # <<>> /\ Head(s) = "." THEN LStripDots(Tail(s)) ELSE s

DefaultExtension == <<"mp4">>

\* Variant: the name is made from the time and the model only.
FilenameUnhashed(prompt, model, extension, now) ==
    <<now, "_">> \o ModelClean(model) \o <<".">> \o LStripDots(extension)

\* f"{timestamp}_{model_clean}_{prompt_hash}.{extension}"
generate_filename(prompt, model, extension, now) ==
    <<now, "_">> \o ModelClean(model) \o <<"_", PromptHash(prompt), ".">> \o LStripDots(extension)

\* The ValueError of generate_filename for an empty prompt or model.
FilenameError(prompt, model) ==
    IF ~TruthyStr(prompt) THEN Exc("ValueError", "Prompt must be a non-empty string", "", 0)
    ELSE IF ~TruthyStr(model) THEN Exc("ValueError", "Model must be a non-empty string", "", 0)
    ELSE NoExc

\* The pieces of a path between separators.
RECURSIVE Segments(_)
Segments(s) ==
    IF s = <<>> THEN <<<<>>>>
    ELSE IF Head(s) = Sep THEN <<<<>>>> \o Segments(Tail(s))
    ELSE LET rest == Segments(Tail(s))
         IN <<<<Head(s)>> \o Head(rest)>> \o Tail(rest)

\* PurePath.parts without the root: empty and "." segments are dropped.
IsPart(seg) == seg # <<>> /\ seg # <<".">>
Parts(s) == SelectSeq(Segments(s), IsPart)

\* Path(filename).name: the last part, or the empty string when there is none.
PathName(s) == IF Parts(s) = <<>> THEN <<>> ELSE Parts(s)[Len(Parts(s))]

\* OUTPUT_DIR / Path(filename).name
get_output_path(filename) == [dir |-> OUTPUT_DIR, name |-> PathName(filename)]

\* The ValueError of get_output_path for an empty file name.
OutputPathError(filename) ==
    IF filename = <<>> THEN Exc("ValueError", "Filename must be a non-empty string", "", 0)
    ELSE NoExc

\* The paths that name the output directory itself or its parent: directories,
\* which exist since config.py creates OUTPUT_DIR when it is imported.
IsDirectory(path) == path.name = <<>> \/ path.name = <<"..">>

(* ------------------------------------------------------------------ *)
(* VeoVideoExtension.generate_scene                                     *)
(* ------------------------------------------------------------------ *)
\* x or default
OrDefault(v, default) == IF TruthyStr(v) THEN v ELSE default

\* **kwargs: the keys of params that are not named parameters of generate_scene.
NamedParameters == {"model", "aspect_ratio", "resolution"}
Kwargs(params) == [k \in DOMAIN params \ NamedParameters |-> params[k]]

\* Variant: 720p is forced for every scene, the first one included.
SceneResolutionForced(previous_video, params) == "720p"

\* resolution after the defaults and the extension rule.
SceneResolution(previous_video, params) ==
    IF previous_video # NoVideo
        THEN "720p"
        ELSE OrDefault(Get(params, "resolution", None), DEFAULT_RESOLUTION)

\* duration_seconds after the extension rule.
SceneDuration(previous_video, params) ==
    IF previous_video # NoVideo
        THEN 8
        ELSE Get(Kwargs(params), "duration_seconds", 8)

\* validate_parameters(aspect_ratio, resolution, duration_seconds, model)
SceneVerdict(previous_video, params) ==
    validate_parameters(
        OrDefault(Get(params, "aspect_ratio", None), DEFAULT_ASPECT_RATIO),
        SceneResolution(previous_video, params),
        SceneDuration(previous_video, params),
        OrDefault(Get(params, "model", None), DEFAULT_MODEL))

\* config_params, then config_params.update(kwargs): a key of kwargs replaces
\* the entry built from the named values.
ConfigParams(previous_video, params) ==
    Kwargs(params) @@
    [aspect_ratio |-> OrDefault(Get(params, "aspect_ratio", None), DEFAULT_ASPECT_RATIO),
     resolution |-> SceneResolution(previous_video, params),
     duration_seconds |-> SceneDuration(previous_video, params),
     number_of_videos |-> 1]

\* The generate_videos call: video= is passed only when extending.
SceneRequest(n, prompt, previous_video, params) ==
    [scene |-> n,
     model |-> OrDefault(Get(params, "model", None), DEFAULT_MODEL),
     prompt |-> prompt,
     video |-> previous_video,
     config |-> ConfigParams(previous_video, params)]

\* operation.response.generated_videos[0] on a response that holds no video.
ResultError(response) ==
    IF response = "none"
        THEN Exc("AttributeError", "'NoneType' object has no attribute 'generated_videos'", "", 0)
        ELSE Exc("IndexError", "list index out of range", "", 0)

(* ------------------------------------------------------------------ *)
(* VeoVideoExtension.extend_from_scenes                                 *)
(* ------------------------------------------------------------------ *)
\* Variant: the upper limit off by one.
LengthErrorOffByOne(n) ==
    IF n = 0 THEN "At least one scene is required"
    ELSE IF n > MAX_EXTENSIONS THEN "Maximum scenes allowed"
    ELSE "ok"

\* The two length checks: the ValueError text, or "ok".
LengthError(n) ==
    IF n = 0 THEN "At least one scene is required"
    ELSE IF n > MAX_EXTENSIONS + 1 THEN "Maximum scenes allowed"
    ELSE "ok"

\* previous_video=video_object.video if video_object else None
PreviousVideo(vo) == IF vo # NoVideo THEN vo ELSE NoVideo

\* Variant: the loop keeps the first scene's artifact.
KeepFirstVideoObject(vo, generated_video) == IF vo # NoVideo THEN vo ELSE generated_video

\* video_object = generated_video
NextVideoObject(vo, generated_video) == generated_video

\* f"extended_{combined_prompt}": the prompts of the first three scenes joined
\* by " -> "; every scene that was generated has the prompt "a scene".
CombinedPrompt(n) ==
    CASE n = 1 -> "extended_a scene"
      [] n = 2 -> "extended_a scene -> a scene"
      [] OTHER -> "extended_a scene -> a scene -> a scene"

\* get_output_path(output_filename), the name being generated from the prompts
\* and DEFAULT_MODEL when none was given.
OutputPath(name, n, now) ==
    get_output_path(IF name # NoFilename
                    THEN name
                    ELSE generate_filename(CombinedPrompt(n), DEFAULT_MODEL, DefaultExtension, now))

\* Variant: the prompts of all scenes are checked on entry, before any scene
\* is generated.
ExtendEntryChecksPrompts ==
    /\ pc = "entry"
    /\ \/ /\ LengthError(nScenes) # "ok"
          /\ raised' = Exc("ValueError", LengthError(nScenes), "", 0)
          /\ pc' = "failed"
          /\ UNCHANGED <<scene_number, video_object>>
       \/ /\ LengthError(nScenes) = "ok"
          /\ \E i \in 1..nScenes :
                raised' = Exc("ValueError", "Scene is missing 'prompt' field", "", i)
          /\ pc' = "failed"
          /\ UNCHANGED <<scene_number, video_object>>
       \/ /\ LengthError(nScenes) = "ok"
          /\ video_object' = NoVideo
          /\ scene_number' = 1
          /\ pc' = "loop"
          /\ UNCHANGED raised
    /\ UNCHANGED <<args, disk, nScenes, output_filename, scene, inflight, returned, files, submits,
                   pending, downloads, downloaded, pollsReturned>>
    /\ UNCHANGED pollVars
    /\ UNCHANGED result
    /\ UNCHANGED spent

\* Checks on entry, then video_object = None and scene_number = 1.
ExtendEntry ==
    /\ pc = "entry"
    /\ \/ /\ LengthError(nScenes) # "ok"
          /\ raised' = Exc("ValueError", LengthError(nScenes), "", 0)
          /\ pc' = "failed"
          /\ UNCHANGED <<scene_number, video_object>>
       \/ /\ LengthError(nScenes) = "ok"
          /\ video_object' = NoVideo
          /\ scene_number' = 1
          /\ pc' = "loop"
          /\ UNCHANGED raised
    /\ UNCHANGED <<args, disk, nScenes, output_filename, scene, inflight, returned, files, submits,
                   pending, downloads, downloaded, pollsReturned>>
    /\ UNCHANGED pollVars
    /\ UNCHANGED result
    /\ UNCHANGED spent

\* f"Scene {scene_number} is missing 'prompt' field", with a 0-based position.
MissingPromptErrorZeroBased(n) ==
    Exc("ValueError", "Scene is missing 'prompt' field", "", n - 1)

\* f"Scene {scene_number} is missing 'prompt' field"
MissingPromptError(n) == Exc("ValueError", "Scene is missing 'prompt' field", "", n)

\* Variant: a scene whose parameters are rejected is logged and skipped.
SceneSubmitSkipInvalid ==
    /\ pc = "loop"
    /\ scene_number <= nScenes
    /\ \E sc \in SceneDicts :
         LET prompt == Get(sc, "prompt", None)
             params == Get(sc, "params", EmptyDict)
             previous_video == PreviousVideo(video_object)
         IN \/ /\ ~TruthyStr(prompt)
               /\ raised' = MissingPromptError(scene_number)
               /\ pc' = "failed"
               /\ UNCHANGED scene_number
               /\ UNCHANGED <<scene, inflight, submits, pending>>
            \/ /\ TruthyStr(prompt)
               /\ SceneVerdict(previous_video, params) # "ok"
               /\ raised' = Exc("ValueError", SceneVerdict(previous_video, params), "", 0)
               /\ pc' = "loop"
               /\ scene_number' = scene_number + 1
               /\ UNCHANGED <<scene, inflight, submits, pending>>
            \/ /\ TruthyStr(prompt)
               /\ SceneVerdict(previous_video, params) = "ok"
               /\ scene' = <<sc>>
               /\ inflight' = <<SceneRequest(scene_number, prompt, previous_video, params)>>
               /\ submits' = submits + 1
               /\ pending' = pending \cup {submits + 1}
               /\ pc' = "submitting"
               /\ UNCHANGED <<raised, scene_number>>
    /\ UNCHANGED <<args, disk, nScenes, output_filename, video_object, returned, files,
                   downloads, downloaded, pollsReturned>>
    /\ UNCHANGED pollVars
    /\ UNCHANGED result
    /\ UNCHANGED spent

\* One iteration of the loop up to the generate_videos call of generate_scene:
\* the prompt check, the defaults, validate_parameters, the request.  The
\* contents of scenes[scene_number - 1] are drawn when the loop reads them.
SceneSubmit ==
    /\ pc = "loop"
    /\ scene_number <= nScenes
    /\ \E sc \in SceneDicts :
         LET prompt == Get(sc, "prompt", None)
             params == Get(sc, "params", EmptyDict)
             previous_video == PreviousVideo(video_object)
         IN \/ /\ ~TruthyStr(prompt)
               /\ raised' = MissingPromptError(scene_number)
               /\ pc' = "failed"
               /\ UNCHANGED <<scene, inflight, submits, pending>>
            \/ /\ TruthyStr(prompt)
               /\ SceneVerdict(previous_video, params) # "ok"
               /\ raised' = Exc("ValueError", SceneVerdict(previous_video, params), "", 0)
               /\ pc' = "failed"
               /\ UNCHANGED <<scene, inflight, submits, pending>>
            \/ /\ TruthyStr(prompt)
               /\ SceneVerdict(previous_video, params) = "ok"
               /\ scene' = <<sc>>
               /\ inflight' = <<SceneRequest(scene_number, prompt, previous_video, params)>>
               /\ submits' = submits + 1
               /\ pending' = pending \cup {submits + 1}
               /\ pc' = "submitting"
               /\ UNCHANGED raised
    /\ UNCHANGED <<args, disk, nScenes, output_filename, scene_number, video_object, returned, files,
                   downloads, downloaded, pollsReturned>>
    /\ UNCHANGED pollVars
    /\ UNCHANGED result
    /\ UNCHANGED spent

\* Variant: the handle is not polled; the scene counts as generated at once.
SubmitReturnUnpolled ==
    /\ pc = "submitting"
    /\ \E op \in Handles(submits) :
         /\ pending' = IF op.done THEN pending \ {op.id} ELSE pending
         /\ video_object' = op.id
    /\ scene_number' = scene_number + 1
    /\ pc' = "loop"
    /\ scene' = <<>>
    /\ inflight' = <<>>
    /\ UNCHANGED <<args, disk, nScenes, output_filename, returned, files, submits, downloads,
                   downloaded, pollsReturned, raised>>
    /\ UNCHANGED pollVars
    /\ UNCHANGED result
    /\ UNCHANGED spent

\* generate_videos returns the operation handle, or raises.
SubmitReturn ==
    /\ pc = "submitting"
    /\ \/ \E op \in Handles(submits) :
            /\ operation' = op
            /\ pending' = IF op.done THEN pending \ {op.id} ELSE pending
            /\ pc' = "poll_call"
            /\ UNCHANGED raised
       \/ \E fault \in Faults :
            /\ raised' = Exc(fault, "generate_videos failed", fault, 0)
            /\ pending' = pending \ {submits}
            /\ pc' = "failed"
            /\ UNCHANGED operation
    /\ scene' = <<>>
    /\ inflight' = <<>>
    /\ UNCHANGED <<args, disk, nScenes, output_filename, scene_number, video_object, returned, files,
                   submits, downloads, downloaded, pollsReturned>>
    /\ UNCHANGED <<attempts, sleeps, slept, refreshes, faults, doneAt>>
    /\ UNCHANGED result
    /\ UNCHANGED spent

\* Variant: every scene's artifact is downloaded and saved as it completes.
SceneResultSaved ==
    /\ pc = "poll_returned"
    /\ args.call \in ChainCalls
    /\ operation.response = "videos"
    /\ video_object' = operation.id
    /\ scene_number' = scene_number + 1
    /\ pc' = "loop"
    /\ downloads' = downloads + 1
    /\ downloaded' = operation.id
    /\ \E now \in Seconds :
         files' = files \cup {[path |-> OutputPath(output_filename, nScenes, now),
                                video |-> operation.id]}
    /\ operation' = NoOperation
    /\ attempts' = 0
    /\ sleeps' = 0
    /\ slept' = 0
    /\ refreshes' = 0
    /\ faults' = 0
    /\ doneAt' = 0
    /\ UNCHANGED <<args, disk, nScenes, output_filename, scene, inflight, returned, submits,
                   pending, pollsReturned, raised>>
    /\ UNCHANGED result
    /\ UNCHANGED spent

\* generate_scene returns operation.response.generated_videos[0]; the loop keeps
\* it in video_object and counts the scene.  The locals of the finished calls
\* (operation, attempts) are gone.
SceneResult ==
    /\ pc = "poll_returned"
    /\ args.call \in ChainCalls
    /\ \/ /\ operation.response = "videos"
          /\ video_object' = NextVideoObject(video_object, operation.id)
          /\ scene_number' = scene_number + 1
          /\ pc' = "loop"
          /\ UNCHANGED raised
       \/ /\ operation.response # "videos"
          /\ raised' = ResultError(operation.response)
          /\ pc' = "failed"
          /\ UNCHANGED <<video_object, scene_number>>
    /\ operation' = NoOperation
    /\ attempts' = 0
    /\ sleeps' = 0
    /\ slept' = 0
    /\ refreshes' = 0
    /\ faults' = 0
    /\ doneAt' = 0
    /\ UNCHANGED <<args, disk, nScenes, output_filename, scene, inflight, returned, files, submits,
                   pending, downloads, downloaded, pollsReturned>>
    /\ UNCHANGED result
    /\ UNCHANGED spent

\* download_video(client, video, output_path), after client.files.download has
\* returned: video.save writes the file or leaves none, and the call returns the
\* path only if output_path.exists().
SaveOutcomes == {"written", "nothing written"}
\* Variant: download_video returns without looking for the file.
FileExistsUnchecked(outcome, path) == TRUE

\* if not output_path.exists(): the file is there when save wrote it or it was there before.
FileExistsAfter(outcome, path) == outcome = "written" \/ path \in disk

\* f"Video download failed: {e}": every fault inside download_video is wrapped.
DownloadFailure(cause) == Exc("RuntimeError", "Video download failed", cause, 0)

\* download_video(client, video, path): client.files.download, video.save (which
\* writes the file or leaves none, and raises when the path is a directory), the
\* check that the file exists; every fault is wrapped in RuntimeError.  The
\* caller returns the path, or the exception leaves it at the place failed.
DownloadVideo(path, video, failed) ==
    \/ /\ ~IsDirectory(path)
       /\ \E outcome \in SaveOutcomes :
            /\ disk' = IF outcome = "written" THEN disk \cup {path} ELSE disk
            /\ files' = IF outcome = "written"
                          THEN files \cup {[path |-> path, video |-> video]}
                          ELSE files
            /\ returned' = IF FileExistsAfter(outcome, path) THEN path ELSE returned
            /\ raised' = IF FileExistsAfter(outcome, path)
                           THEN raised
                           ELSE DownloadFailure("Video file was not created")
            /\ pc' = IF FileExistsAfter(outcome, path) THEN "done" ELSE failed
    \/ /\ IsDirectory(path)
       /\ raised' = DownloadFailure("IsADirectoryError")
       /\ pc' = failed
       /\ UNCHANGED <<files, returned, disk>>
    \/ \E fault \in Faults :
         /\ raised' = DownloadFailure(fault)
         /\ pc' = failed
         /\ UNCHANGED <<files, returned, disk>>

\* After the loop: the output path, then download_video(client, video_object.video,
\* output_path).
Download ==
    /\ pc = "loop"
    /\ scene_number > nScenes
    /\ downloads' = downloads + 1
    /\ downloaded' = video_object
    /\ \E now \in Seconds :
         DownloadVideo(OutputPath(output_filename, nScenes, now), video_object, "failed")
    /\ UNCHANGED <<args, nScenes, output_filename, scene_number, video_object, scene, inflight,
                   submits, pending, pollsReturned>>
    /\ UNCHANGED pollVars
    /\ UNCHANGED result
    /\ UNCHANGED spent

\* One call of extend_from_scenes on a list of nScenes scenes.
Init ==
    /\ args = [call |-> "extend_from_scenes"]
    /\ disk = {}
    /\ nScenes \in 0..MaxScenes
    /\ output_filename \in OutputFilenames
    /\ pc = "entry"
    /\ scene_number = 0
    /\ video_object = NoVideo
    /\ scene = <<>>
    /\ inflight = <<>>
    /\ operation = NoOperation
    /\ attempts = 0
    /\ raised = NoExc
    /\ returned = NoPath
    /\ files = {}
    /\ submits = 0
    /\ sleeps = 0
    /\ slept = 0
    /\ refreshes = 0
    /\ faults = 0
    /\ doneAt = 0
    /\ pollsReturned = 0
    /\ pending = {}
    /\ downloads = 0
    /\ downloaded = NoVideo
    /\ result = NoResult
    /\ spent = 0

Next ==
    \/ ExtendEntry
    \/ SceneSubmit
    \/ SubmitReturn
    \/ PollEnter
    \/ PollSleep
    \/ PollRefresh
    \/ PollTimeout
    \/ PollFinish
    \/ SceneResult
    \/ Download

Spec == Init /\ [][Next]_vars

(* ------------------------------------------------------------------ *)
(* VeoVideoExtension.extend_from_scenes_file                            *)
(* ------------------------------------------------------------------ *)
\* Python truth value of a JSON value: null, 0, "", [] and {} are false.
TruthyJson(v) == v.size # 0

\* data.get("scenes", []): a missing key reads as the empty list.
ScenesOf(a) == IF a.scenes = NoJson THEN [type |-> "list", size |-> 0] ELSE a.scenes

\* Variant: the type of the "scenes" value is not looked at.
ScenesFileErrorAnyType(a) ==
    IF a.file = "" THEN Exc("ValueError", "Scenes file path must be a non-empty string", "", 0)
    ELSE IF a.file = "missing" THEN Exc("FileNotFoundError", "Scenes file not found", "", 0)
    ELSE IF a.file = "directory" THEN Exc("ValueError", "Scenes path is not a file", "", 0)
    ELSE IF a.file = "bad_json" THEN Exc("ValueError", "Invalid JSON in scenes file", "JSONDecodeError", 0)
    ELSE IF a.file = "unreadable" THEN Exc("RuntimeError", "Failed to read scenes file", "OSError", 0)
    ELSE IF a.top # "dict" THEN Exc("ValueError", "Scenes file must contain a JSON object", "", 0)
    ELSE IF ~TruthyJson(ScenesOf(a)) THEN Exc("ValueError", "No scenes found in the file", "", 0)
    ELSE NoExc

\* The checks of extend_from_scenes_file, in the order of the code: the first
\* one that fails gives the exception, NoExc when the scenes list is handed on.
ScenesFileError(a) ==
    IF a.file = "" THEN Exc("ValueError", "Scenes file path must be a non-empty string", "", 0)
    ELSE IF a.file = "missing" THEN Exc("FileNotFoundError", "Scenes file not found", "", 0)
    ELSE IF a.file = "directory" THEN Exc("ValueError", "Scenes path is not a file", "", 0)
    ELSE IF a.file = "bad_json" THEN Exc("ValueError", "Invalid JSON in scenes file", "JSONDecodeError", 0)
    ELSE IF a.file = "unreadable" THEN Exc("RuntimeError", "Failed to read scenes file", "OSError", 0)
    ELSE IF a.top # "dict" THEN Exc("ValueError", "Scenes file must contain a JSON object", "", 0)
    ELSE IF ~TruthyJson(ScenesOf(a)) THEN Exc("ValueError", "No scenes found in the file", "", 0)
    ELSE IF ScenesOf(a).type # "list" THEN Exc("ValueError", "'scenes' must be an array", "", 0)
    ELSE NoExc

\* extend_from_scenes_file up to its call of extend_from_scenes(scenes, output_filename).
LoadScenesFile ==
    /\ pc = "file_call"
    /\ IF ScenesFileError(args) # NoExc
       THEN /\ raised' = ScenesFileError(args)
            /\ pc' = "failed"
            /\ UNCHANGED nScenes
       ELSE /\ nScenes' = ScenesOf(args).size
            /\ pc' = "entry"
            /\ UNCHANGED raised
    /\ UNCHANGED <<args, disk, output_filename, scene_number, video_object, scene, inflight,
                   returned, files, submits, pending, downloads, downloaded, pollsReturned>>
    /\ UNCHANGED pollVars
    /\ UNCHANGED result
    /\ UNCHANGED spent

(* ------------------------------------------------------------------ *)
(* VeoVideoGenerator.generate_video, generate_video_with_image          *)
(* ------------------------------------------------------------------ *)
\* str.strip() on the prompts of PromptArgs.
Strip(s) == IF s = "   " THEN "" ELSE s

\* Variant: a prompt is accepted as soon as it is a non-empty string.
PromptErrorNoStrip(a) ==
    IF ~TruthyStr(a.prompt)
    THEN Exc("ValueError", "Prompt must be a non-empty string", "", 0)
    ELSE NoExc

\* The prompt checks: two tests in generate_video, one in generate_video_with_image.
PromptError(a) ==
    IF a.call = "generate_video"
    THEN IF ~TruthyStr(a.prompt)
         THEN Exc("ValueError", "Prompt must be a non-empty string", "", 0)
         ELSE IF Len(Strip(a.prompt)) = 0
         THEN Exc("ValueError", "Prompt cannot be empty or whitespace only", "", 0)
         ELSE NoExc
    ELSE IF ~TruthyStr(a.prompt) \/ Len(Strip(a.prompt)) = 0
         THEN Exc("ValueError", "Prompt must be a non-empty string", "", 0)
         ELSE NoExc

\* The image_path checks of generate_video_with_image, made before the try block.
ImagePathError(a) ==
    IF a.call # "generate_video_with_image" THEN NoExc
    ELSE IF a.image = "" THEN Exc("ValueError", "Image path must be a non-empty string", "", 0)
    ELSE IF a.image = "missing" THEN Exc("FileNotFoundError", "Image file not found", "", 0)
    ELSE IF a.image = "directory" THEN Exc("ValueError", "Image path is not a file", "", 0)
    ELSE NoExc

\* x = x or DEFAULT_X for the four named parameters.
GenModel(params) == OrDefault(Get(params, "model", None), DEFAULT_MODEL)
GenAspectRatio(params) == OrDefault(Get(params, "aspect_ratio", None), DEFAULT_ASPECT_RATIO)
GenResolution(params) == OrDefault(Get(params, "resolution", None), DEFAULT_RESOLUTION)
GenDuration(params) ==
    LET d == Get(params, "duration_seconds", 0)
    IN IF TruthyInt(d) THEN d ELSE DEFAULT_DURATION_SECONDS

\* validate_parameters on the defaulted parameters.
GenVerdict(params) ==
    validate_parameters(GenAspectRatio(params), GenResolution(params),
                        GenDuration(params), GenModel(params))

ParameterError(a) ==
    IF GenVerdict(a.params) # "ok"
    THEN Exc("ValueError", GenVerdict(a.params), "", 0)
    ELSE NoExc

\* Image.open(image_path), the first statement of the try block: PIL raises
\* UnidentifiedImageError (an OSError) for a file it cannot read as an image.
ImageOpenError(a) ==
    IF a.call = "generate_video_with_image" /\ a.image = "undecodable"
    THEN Exc("UnidentifiedImageError", "cannot identify image file", "", 0)
    ELSE NoExc

\* The first failing check before the try block.
GenEntryError(a) ==
    IF PromptError(a) # NoExc THEN PromptError(a)
    ELSE IF ImagePathError(a) # NoExc THEN ImagePathError(a)
    ELSE ParameterError(a)

\* The parameters each entry point names in its signature; the rest is **kwargs.
GenNamedParameters(call) ==
    IF call = "generate_video"
    THEN {"model", "aspect_ratio", "resolution", "duration_seconds", "negative_prompt", "seed"}
    ELSE {"model", "aspect_ratio", "resolution", "duration_seconds"}
GenKwargs(a) == [k \in DOMAIN a.params \ GenNamedParameters(a.call) |-> a.params[k]]

\* generate_video adds negative_prompt when it is truthy and seed when it is not None.
OptionalParams(a) ==
    IF a.call = "generate_video"
    THEN [k \in {j \in {"negative_prompt", "seed"} \cap DOMAIN a.params :
                    j = "negative_prompt" => TruthyStr(a.params[j])} |-> a.params[k]]
    ELSE EmptyDict

\* config_params, then config_params.update(kwargs).
GenConfigParams(a) ==
    GenKwargs(a) @@ OptionalParams(a)
    @@ [aspect_ratio |-> GenAspectRatio(a.params),
        resolution |-> GenResolution(a.params),
        duration_seconds |-> GenDuration(a.params)]

\* The request handed to client.models.generate_videos.
GenRequest(a) ==
    [scene |-> 0, model |-> GenModel(a.params), prompt |-> a.prompt, video |-> NoVideo,
     image |-> a.image, config |-> GenConfigParams(a)]

\* Variant: no clause re-raises TimeoutError.
HandleExceptionNoTimeoutClause(call, e) ==
    IF e.kind \in {"ValueError", "RuntimeError"} THEN e
    ELSE IF call = "generate_video_with_image" /\ e.kind = "FileNotFoundError" THEN e
    ELSE IF call = "generate_video"
    THEN Exc("RuntimeError", "Video generation failed", e.text, 0)
    ELSE Exc("RuntimeError", "Image-to-video generation failed", e.text, 0)

\* The except clauses that close the try block: ValueError, TimeoutError and
\* RuntimeError (and FileNotFoundError in generate_video_with_image) are raised
\* again as they are, every other exception is raised as a RuntimeError.
HandleException(call, e) ==
    IF e.kind \in {"ValueError", "TimeoutError", "RuntimeError"} THEN e
    ELSE IF call = "generate_video_with_image" /\ e.kind = "FileNotFoundError" THEN e
    ELSE IF call = "generate_video"
    THEN Exc("RuntimeError", "Video generation failed", e.text, 0)
    ELSE Exc("RuntimeError", "Image-to-video generation failed", e.text, 0)

\* The arguments still read after the request is sent: the prompt and the model
\* (for the file name); the other parameters are in the request.
LiveArgs(a) ==
    [call |-> a.call, prompt |-> a.prompt, image |-> NoImage,
     params |-> [k \in DOMAIN a.params \cap {"model"} |-> a.params[k]]]

\* From the call to the submit: the checks before the try block, the image load,
\* then the request is built and sent.
GenEntry ==
    /\ pc = "gen_entry"
    /\ \/ /\ GenEntryError(args) # NoExc
          /\ raised' = GenEntryError(args)
          /\ pc' = "gen_failed"
          /\ UNCHANGED <<inflight, submits, pending>>
       \/ /\ GenEntryError(args) = NoExc
          /\ ImageOpenError(args) # NoExc
          /\ raised' = ImageOpenError(args)
          /\ pc' = "failed"
          /\ UNCHANGED <<inflight, submits, pending>>
       \/ /\ GenEntryError(args) = NoExc
          /\ ImageOpenError(args) = NoExc
          /\ inflight' = <<GenRequest(args)>>
          /\ submits' = submits + 1
          /\ pending' = pending \cup {submits + 1}
          /\ pc' = "gen_submitting"
          /\ UNCHANGED raised
    /\ UNCHANGED <<args, disk, nScenes, output_filename, scene_number, video_object, scene,
                   returned, files, downloads, downloaded, pollsReturned>>
    /\ UNCHANGED pollVars
    /\ UNCHANGED result
    /\ UNCHANGED spent

\* generate_videos returns the operation handle, or raises.
GenSubmitReturn ==
    /\ pc = "gen_submitting"
    /\ \/ \E op \in Handles(submits) :
            /\ operation' = op
            /\ pending' = IF op.done THEN pending \ {op.id} ELSE pending
            /\ pc' = "poll_call"
            /\ UNCHANGED raised
       \/ \E fault \in Faults :
            /\ raised' = Exc(fault, "generate_videos failed", fault, 0)
            /\ pending' = pending \ {submits}
            /\ pc' = "failed"
            /\ UNCHANGED operation
    /\ inflight' = <<>>
    /\ args' = LiveArgs(args)
    /\ UNCHANGED <<disk, nScenes, output_filename, scene_number, video_object, scene, returned,
                   files, submits, downloads, downloaded, pollsReturned>>
    /\ UNCHANGED <<attempts, sleeps, slept, refreshes, faults, doneAt>>
    /\ UNCHANGED result
    /\ UNCHANGED spent

\* Variant: a timed-out job is submitted a second time.
GenExceptRetry ==
    /\ pc = "failed"
    /\ args.call \in GenCalls
    /\ IF raised.kind = "TimeoutError" /\ submits < 2
       THEN /\ raised' = NoExc
            /\ inflight' = <<GenRequest(args)>>
            /\ submits' = submits + 1
            /\ pending' = pending \cup {submits + 1}
            /\ pc' = "gen_submitting"
       ELSE /\ raised' = HandleException(args.call, raised)
            /\ pc' = "gen_failed"
            /\ UNCHANGED <<inflight, submits, pending>>
    /\ UNCHANGED <<args, disk, nScenes, output_filename, scene_number, video_object, scene,
                   returned, files, downloads, downloaded, pollsReturned>>
    /\ UNCHANGED pollVars
    /\ UNCHANGED result
    /\ UNCHANGED spent

\* An exception raised inside the try block passes the except clauses and
\* leaves the call.
GenExcept ==
    /\ pc = "failed"
    /\ args.call \in GenCalls
    /\ raised' = HandleException(args.call, raised)
    /\ pc' = "gen_failed"
    /\ UNCHANGED chainVars
    /\ UNCHANGED pollVars
    /\ UNCHANGED pollsReturned
    /\ UNCHANGED result
    /\ UNCHANGED spent

\* if not operation.response or not operation.response.generated_videos.
NoVideosError ==
    Exc("RuntimeError", "API did not return any generated videos", "", 0)

\* The text whose hash goes into the name: the prompt, or f"img2vid_{prompt}".
FilenamePrompt(a) ==
    IF a.call = "generate_video" THEN a.prompt
    ELSE CASE a.prompt = "A cinematic shot of a lion" -> "img2vid_A cinematic shot of a lion"

\* generate_filename(prompt, model) resp. generate_filename(f"img2vid_{prompt}", model)
GeneratedFilename(a, now) ==
    generate_filename(FilenamePrompt(a), GenModel(a.params), DefaultExtension, now)

\* get_output_path(output_filename), with the generated name when none was given.
GenOutputPath(a, name, now) ==
    get_output_path(IF name # NoFilename THEN name ELSE GeneratedFilename(a, now))

\* Variant: the download is asked for before the result is examined.
GenFinishDownloadFirst ==
    /\ pc = "poll_returned"
    /\ args.call \in GenCalls
    /\ \/ /\ operation.response # "videos"
          /\ raised' = NoVideosError
          /\ pc' = "gen_failed"
          /\ downloads' = downloads + 1
          /\ UNCHANGED <<disk, files, returned, downloaded>>
       \/ /\ operation.response = "videos"
          /\ downloads' = downloads + 1
          /\ downloaded' = operation.id
          /\ \E now \in Seconds :
               DownloadVideo(GenOutputPath(args, output_filename, now), operation.id, "gen_failed")
    /\ operation' = NoOperation
    /\ attempts' = 0
    /\ sleeps' = 0
    /\ slept' = 0
    /\ refreshes' = 0
    /\ doneAt' = 0
    /\ UNCHANGED <<args, nScenes, output_filename, scene_number, video_object, scene, inflight,
                   submits, pending, pollsReturned, faults>>
    /\ UNCHANGED result
    /\ UNCHANGED spent

\* After the poll: the result check, then the download and the returned path.
GenFinish ==
    /\ pc = "poll_returned"
    /\ args.call \in GenCalls
    /\ \/ /\ operation.response # "videos"
          /\ raised' = NoVideosError
          /\ pc' = "gen_failed"
          /\ UNCHANGED <<disk, files, returned, downloads, downloaded>>
       \/ /\ operation.response = "videos"
          /\ downloads' = downloads + 1
          /\ downloaded' = operation.id
          /\ \E now \in Seconds :
               DownloadVideo(GenOutputPath(args, output_filename, now), operation.id, "gen_failed")
    /\ operation' = NoOperation
    /\ attempts' = 0
    /\ sleeps' = 0
    /\ slept' = 0
    /\ refreshes' = 0
    /\ doneAt' = 0
    /\ UNCHANGED <<args, nScenes, output_filename, scene_number, video_object, scene, inflight,
                   submits, pending, pollsReturned, faults>>
    /\ UNCHANGED result
    /\ UNCHANGED spent

\* The files an earlier run can have left in the output directory: one with the
\* name a caller passes, one with the name generate_filename gives a call made
\* within the same second with the same prompt and model.
StaleFiles ==
    {get_output_path(<<"final.mp4">>),
     get_output_path(generate_filename("A cinematic shot of a lion", DEFAULT_MODEL,
                                       DefaultExtension, "20261103_120000"))}

(* ------------------------------------------------------------------ *)
(* The three entry points, called with any arguments                    *)
(* ------------------------------------------------------------------ *)
InitCalls ==
    /\ args \in GenArgs \cup FileArgs
    /\ output_filename \in OutputFilenames
    /\ disk \in {{}} \cup {{f} : f \in StaleFiles}
    /\ nScenes = 0
    /\ pc = IF args.call \in GenCalls THEN "gen_entry" ELSE "file_call"
    /\ scene_number = 0
    /\ video_object = NoVideo
    /\ scene = <<>>
    /\ inflight = <<>>
    /\ operation = NoOperation
    /\ attempts = 0
    /\ raised = NoExc
    /\ returned = NoPath
    /\ files = {}
    /\ submits = 0
    /\ sleeps = 0
    /\ slept = 0
    /\ refreshes = 0
    /\ faults = 0
    /\ doneAt = 0
    /\ pollsReturned = 0
    /\ pending = {}
    /\ downloads = 0
    /\ downloaded = NoVideo
    /\ result = NoResult
    /\ spent = 0

NextCalls ==
    \/ LoadScenesFile
    \/ GenEntry
    \/ GenSubmitReturn
    \/ GenExcept
    \/ GenFinish
    \/ ExtendEntry
    \/ SceneSubmit
    \/ SubmitReturn
    \/ PollEnter
    \/ PollSleep
    \/ PollRefresh
    \/ PollTimeout
    \/ PollFinish
    \/ SceneResult
    \/ Download

SpecCalls == InitCalls /\ [][NextCalls]_vars

(* ------------------------------------------------------------------ *)
(* The helpers of utils.py, called on their own                         *)
(* ------------------------------------------------------------------ *)
\* Longest file name handed to get_output_path, in pieces.
MaxPieces == 5
\* Calls of generate_filename in one run.
MaxCalls == 2

\* Arguments of validate_parameters; an argument left out (or None) is no key.
ValidateDicts ==
    {a @@ r @@ d @@ m :
        a \in {EmptyDict} \cup {[aspect_ratio |-> v] : v \in {"", "16:9", "9:16", "4:3"}},
        r \in {EmptyDict} \cup {[resolution |-> v] : v \in {"", "720p", "1080p", "4k"}},
        d \in {EmptyDict} \cup {[duration_seconds |-> v] : v \in {0, 4, 6, 8, 5}},
        m \in {EmptyDict} \cup {[model |-> v] : v \in {DEFAULT_MODEL, "veo-9-experimental"}}}

\* The file names: pieces with a separator between any two names, so that
\* every name between separators is one piece.
RECURSIVE SeqsUpTo(_, _)
SeqsUpTo(S, n) ==
    IF n = 0 THEN {<<>>}
    ELSE LET shorter == SeqsUpTo(S, n - 1)
         IN shorter \cup {Append(s, x) : s \in {t \in shorter : Len(t) = n - 1}, x \in S}
Filenames ==
    {f \in SeqsUpTo({Sep, ".", "..", "etc", "passwd"}, MaxPieces) :
        \A i \in 1..(Len(f) - 1) : f[i] = Sep \/ f[i + 1] = Sep}

\* Arguments of generate_filename.
FilenamePrompts ==
    {"", "A cinematic shot of a lion",
     "A cinematic shot of a lion, take 7697", "A cinematic shot of a lion, take 91774"}
FilenameModels == {"", DEFAULT_MODEL, "veo-3.1-fast-generate-preview"}
Extensions == {<<"mp4">>, <<".", "mp4">>}

UtilsArgs ==
    {[call |-> "validate_parameters", params |-> d] : d \in ValidateDicts}
    \cup {[call |-> "get_output_path", filename |-> f] : f \in Filenames}
    \cup {[call |-> "generate_filename"]}

\* The warnings validate_parameters prints: about the model once the first three
\* checks have passed, about 1080p with 9:16 once every check has passed.
Warnings(aspect_ratio, resolution, duration_seconds, model) ==
    LET verdict == validate_parameters(aspect_ratio, resolution, duration_seconds, model)
    IN {w \in {"model not in the known list"} :
            /\ verdict \in {"ok", "1080p resolution only supports 8 second duration"}
            /\ TruthyStr(model)
            /\ model \notin SUPPORTED_MODELS}
       \cup {w \in {"1080p with 9:16 may have limited support"} :
            /\ verdict = "ok"
            /\ resolution = "1080p"
            /\ aspect_ratio = "9:16"}

\* One call validate_parameters(**params): it raises ValueError or returns None.
ValidateCall ==
    /\ pc = "validate_call"
    /\ LET aspect_ratio == Get(args.params, "aspect_ratio", None)
           resolution == Get(args.params, "resolution", None)
           duration_seconds == Get(args.params, "duration_seconds", 0)
           model == Get(args.params, "model", None)
           verdict == validate_parameters(aspect_ratio, resolution, duration_seconds, model)
       IN /\ result' = [kind |-> "validate_parameters",
                        warnings |-> Warnings(aspect_ratio, resolution, duration_seconds, model)]
          /\ raised' = IF verdict = "ok" THEN raised ELSE Exc("ValueError", verdict, "", 0)
          /\ pc' = IF verdict = "ok" THEN "validate_returned" ELSE "failed"
    /\ UNCHANGED chainVars
    /\ UNCHANGED pollVars
    /\ UNCHANGED pollsReturned
    /\ UNCHANGED spent

\* One call get_output_path(filename).
OutputPathCall ==
    /\ pc = "path_call"
    /\ IF OutputPathError(args.filename) # NoExc
       THEN /\ raised' = OutputPathError(args.filename)
            /\ pc' = "failed"
            /\ UNCHANGED returned
       ELSE /\ returned' = get_output_path(args.filename)
            /\ pc' = "path_returned"
            /\ UNCHANGED raised
    /\ UNCHANGED <<args, disk, nScenes, output_filename, scene_number, video_object, scene,
                   inflight, result, files, submits, pending, downloads, downloaded,
                   pollsReturned>>
    /\ UNCHANGED pollVars
    /\ UNCHANGED spent

\* One more call generate_filename(prompt, model, extension), the clock showing
\* the second now; the calls that returned are kept with their file names.
FilenameCall ==
    /\ pc = "filename_calls"
    /\ Len(result.calls) < MaxCalls
    /\ \E prompt \in FilenamePrompts, model \in FilenameModels,
          extension \in Extensions, now \in Seconds :
         IF FilenameError(prompt, model) # NoExc
         THEN /\ raised' = FilenameError(prompt, model)
              /\ pc' = "failed"
              /\ UNCHANGED result
         ELSE /\ result' = [result EXCEPT !.calls = Append(@,
                    [prompt |-> prompt, model |-> model, extension |-> extension, now |-> now,
                     filename |-> generate_filename(prompt, model, extension, now)])]
              /\ UNCHANGED <<raised, pc>>
    /\ UNCHANGED chainVars
    /\ UNCHANGED pollVars
    /\ UNCHANGED pollsReturned
    /\ UNCHANGED spent

InitUtils ==
    /\ args \in UtilsArgs
    /\ pc = CASE args.call = "validate_parameters" -> "validate_call"
              [] args.call = "get_output_path" -> "path_call"
              [] args.call = "generate_filename" -> "filename_calls"
    /\ result = IF args.call = "generate_filename"
                THEN [kind |-> "generate_filename", calls |-> <<>>]
                ELSE NoResult
    /\ disk = {}
    /\ nScenes = 0
    /\ output_filename = NoFilename
    /\ scene_number = 0
    /\ video_object = NoVideo
    /\ scene = <<>>
    /\ inflight = <<>>
    /\ operation = NoOperation
    /\ attempts = 0
    /\ raised = NoExc
    /\ returned = NoPath
    /\ files = {}
    /\ submits = 0
    /\ sleeps = 0
    /\ slept = 0
    /\ refreshes = 0
    /\ faults = 0
    /\ doneAt = 0
    /\ pollsReturned = 0
    /\ pending = {}
    /\ downloads = 0
    /\ downloaded = NoVideo
    /\ spent = 0

NextUtils == ValidateCall \/ OutputPathCall \/ FilenameCall

SpecUtils == InitUtils /\ [][NextUtils]_vars

(* ------------------------------------------------------------------ *)
(* veo_generator.main, veo_extension.main                               *)
(* ------------------------------------------------------------------ *)
\* What the command line can hand to the workflow: argparse only lets the
\* supported aspect ratios, resolutions and durations through; a prompt of None
\* stands for no prompt word at all; --negative-prompt and --seed are passed to
\* generate_video only; generate_video_with_image is called when --image is
\* not empty.
MainArgs ==
    {a \in GenArgs :
        /\ Get(a.params, "aspect_ratio", "16:9") \in {"16:9", "9:16"}
        /\ Get(a.params, "resolution", "720p") \in {"720p", "1080p"}
        /\ Get(a.params, "duration_seconds", 8) \in {4, 6, 8}
        /\ a.call = "generate_video_with_image"
             => a.image # "" /\ DOMAIN a.params \cap {"negative_prompt", "seed"} = {}}
    \cup FileArgs

\* The constructor's failures: no API key, or genai.Client raising.
InitErrors ==
    {Exc("ValueError", "API key is required", "", 0),
     Exc("RuntimeError", "Failed to initialize", "APIError", 0)}

\* Where an exception leaves the workflow, and where the workflow starts.
FailedAt(call) == IF call \in GenCalls THEN "gen_failed" ELSE "failed"
EntryOf(call) == IF call \in GenCalls THEN "gen_entry" ELSE "file_call"
WorkflowFailed == pc = FailedAt(args.call)

\* main up to the workflow call: without a prompt word veo_generator.main prints
\* the help and exits with 1; else the constructor runs inside the try block.
MainCall ==
    /\ pc = "main_call"
    /\ IF args.call \in GenCalls /\ args.prompt = None
       THEN /\ result' = [kind |-> "exit", code |-> 1]
            /\ pc' = "exited"
            /\ UNCHANGED raised
       ELSE /\ \/ /\ pc' = EntryOf(args.call)
                  /\ UNCHANGED raised
               \/ \E e \in InitErrors :
                    /\ raised' = e
                    /\ pc' = FailedAt(args.call)
            /\ UNCHANGED result
    /\ UNCHANGED chainVars
    /\ UNCHANGED pollVars
    /\ UNCHANGED pollsReturned
    /\ UNCHANGED spent

\* Variant: main returns 0 at its end, whatever happened.
MainReturnZero ==
    /\ pc = "done" \/ WorkflowFailed
    /\ result' = [kind |-> "exit", code |-> 0]
    /\ pc' = "exited"
    /\ UNCHANGED raised
    /\ UNCHANGED chainVars
    /\ UNCHANGED pollVars
    /\ UNCHANGED pollsReturned
    /\ UNCHANGED spent

\* return 0 after the workflow returned; except Exception: return 1.
MainReturn ==
    /\ pc = "done" \/ WorkflowFailed
    /\ result' = [kind |-> "exit", code |-> IF pc = "done" THEN 0 ELSE 1]
    /\ pc' = "exited"
    /\ UNCHANGED raised
    /\ UNCHANGED chainVars
    /\ UNCHANGED pollVars
    /\ UNCHANGED pollsReturned
    /\ UNCHANGED spent

InitMain ==
    /\ args \in MainArgs
    /\ output_filename \in OutputFilenames
    /\ disk \in {{}} \cup {{f} : f \in StaleFiles}
    /\ nScenes = 0
    /\ pc = "main_call"
    /\ scene_number = 0
    /\ video_object = NoVideo
    /\ scene = <<>>
    /\ inflight = <<>>
    /\ operation = NoOperation
    /\ attempts = 0
    /\ raised = NoExc
    /\ returned = NoPath
    /\ result = NoResult
    /\ files = {}
    /\ submits = 0
    /\ sleeps = 0
    /\ slept = 0
    /\ refreshes = 0
    /\ faults = 0
    /\ doneAt = 0
    /\ pollsReturned = 0
    /\ pending = {}
    /\ downloads = 0
    /\ downloaded = NoVideo
    /\ spent = 0

NextMain == MainCall \/ MainReturn \/ NextCalls

SpecMain == InitMain /\ [][NextMain]_vars

(* ------------------------------------------------------------------ *)
(* Properties of poll_operation (checked under SpecPoll)                *)
(* ------------------------------------------------------------------ *)
PollRunning == pc \in {"poll_call", "poll_head", "poll_slept"}
Succeeded == pc = "poll_returned" /\ raised = NoExc
Failed == pc = "failed" /\ raised.kind = "RuntimeError"
TimedOut == pc = "failed" /\ raised.kind = "TimeoutError"
ShownDoneOk == pc = "poll_head" /\ operation.done /\ ~HasError(operation)

\* C1: a handle that first shows done=true with no error after the k-th
\* refresh, k < 180, is returned after exactly k refresh calls (and k sleeps):
\* once it shows done no further refresh or sleep is made and the call does not
\* fail, and it does return; a handle done on entry costs no refresh, no sleep.
C1_ExactRefreshes ==
    /\ [](operation.done /\ operation.error = NoError /\ doneAt < MAX_POLL_ATTEMPTS
            => /\ refreshes = doneAt
               /\ sleeps = doneAt
               /\ pc \in {"poll_call", "poll_head", "poll_returned"})
    /\ [](pc = "poll_returned" => operation.done /\ refreshes = doneAt)
    /\ (ShownDoneOk /\ doneAt < MAX_POLL_ATTEMPTS ~> Succeeded /\ refreshes = doneAt)

C1_Witness ==
    /\ Succeeded
    /\ doneAt = MAX_POLL_ATTEMPTS - 1
    /\ refreshes = MAX_POLL_ATTEMPTS - 1

\* C2: a handle still not done after 180 refreshes makes poll_operation raise
\* TimeoutError after exactly 180 refresh calls; a 181st is never made.
C2_TimeoutAfterBound ==
    /\ [](refreshes <= MAX_POLL_ATTEMPTS /\ sleeps <= MAX_POLL_ATTEMPTS)
    /\ [](raised.kind = "TimeoutError"
            => /\ pc = "failed"
               /\ ~operation.done
               /\ refreshes = MAX_POLL_ATTEMPTS
               /\ attempts = MAX_POLL_ATTEMPTS
               /\ faults = 0)
    /\ (pc = "poll_head" /\ ~operation.done /\ refreshes = MAX_POLL_ATTEMPTS
            ~> TimedOut /\ refreshes = MAX_POLL_ATTEMPTS)

C2_Witness == TimedOut /\ refreshes = MAX_POLL_ATTEMPTS /\ ~operation.done

\* C3: a handle done with an error makes poll_operation raise RuntimeError
\* carrying the provider's error text and is never returned; a handle done
\* without error is returned; so a returned handle is done and error-free.
C3_ErrorOrHandle ==
    /\ [](pc = "poll_returned" => operation.done /\ operation.error = NoError)
    /\ [](raised.text = "Video generation failed"
            => /\ raised.kind = "RuntimeError"
               /\ pc = "failed"
               /\ operation.done
               /\ raised.cause \in ErrorPayloads
               /\ raised.cause = operation.error)
    /\ (pc = "poll_head" /\ operation.done /\ operation.error # NoError
            ~> Failed /\ raised = OperationFailure(operation))
    /\ (pc = "poll_head" /\ operation.done /\ operation.error = NoError ~> Succeeded)

C3_Witness ==
    /\ Failed
    /\ raised.text = "Video generation failed"
    /\ raised.cause = "content blocked"
    /\ refreshes > 0

\* C4: a status call that raises ends poll_operation at once with RuntimeError
\* wrapping the fault: it is the last remote call and the last sleep of the
\* poll, and it is not counted as an attempt.
C4_RefreshFaultAborts ==
    /\ [](faults > 0
            => /\ faults = 1
               /\ Failed
               /\ raised.text = "Failed to poll operation"
               /\ raised.cause \in Faults
               /\ refreshes = attempts + 1
               /\ sleeps = refreshes)
    /\ [](faults = 0 /\ pc # "poll_slept" => refreshes = attempts)
    /\ [][faults > 0 => refreshes' = refreshes /\ sleeps' = sleeps /\ pc' = pc]_vars

C4_Witness == faults = 1 /\ Failed /\ attempts = 7 /\ refreshes = 8

\* C5: poll_operation terminates whatever the remote handle does, in exactly one
\* of Succeeded, Failed, TimedOut, after at most 180 refresh calls; the attempt
\* counter never exceeds 180.
C5_Terminates ==
    /\ [](attempts <= MAX_POLL_ATTEMPTS /\ refreshes <= MAX_POLL_ATTEMPTS)
    /\ [](PollRunning \/ Succeeded \/ Failed \/ TimedOut)
    /\ [](~PollRunning => ~(Succeeded /\ Failed) /\ ~(Succeeded /\ TimedOut) /\ ~(Failed /\ TimedOut))
    /\ <>(~PollRunning)
    /\ [][~PollRunning => UNCHANGED vars]_vars

C5_Witness == Succeeded /\ refreshes = MAX_POLL_ATTEMPTS /\ doneAt = MAX_POLL_ATTEMPTS

(* ------------------------------------------------------------------ *)
(* Properties of extend_from_scenes (checked under Spec)                *)
(* ------------------------------------------------------------------ *)
Submitting == inflight # <<>>
LengthErrors == {"At least one scene is required", "Maximum scenes allowed"}

\* C6: the scenes are submitted one at a time and in order: the i-th submit is
\* the request of scene i and is issued when i-1 polls have returned a completed
\* handle; never are two submitted operations both not yet completed; once all
\* scenes have succeeded exactly nScenes submits have been made.
C6_Sequential ==
    /\ Cardinality(pending) <= 1
    /\ submits <= nScenes
    /\ pollsReturned <= submits
    /\ Submitting
         => /\ inflight[1].scene = submits
            /\ scene_number = submits
            /\ pollsReturned = submits - 1
            /\ pending = {submits}
    /\ pc = "poll_returned" => operation.done /\ operation.id = submits
    /\ scene_number = nScenes + 1 => submits = nScenes /\ pollsReturned = nScenes /\ pending = {}
    /\ pc = "done" => scene_number = nScenes + 1

C6_Witness ==
    /\ pc = "done"
    /\ nScenes = MAX_EXTENSIONS + 1
    /\ submits = MAX_EXTENSIONS + 1

\* C7: the request of scene 1 carries no seed video, and the request of every
\* scene i >= 2 carries the artifact of scene i-1 (the video of operation i-1).
C7_SeedIsPrevious ==
    Submitting
      => /\ inflight[1].scene = 1 => inflight[1].video = NoVideo
         /\ inflight[1].scene >= 2 => inflight[1].video = inflight[1].scene - 1

C7_Witness == Submitting /\ inflight[1].scene = 3 /\ inflight[1].video = 2

\* C8: every request that carries a seed video (scene i >= 2) is sent with
\* resolution 720p and duration 8 seconds, whatever the scene's params hold.
C8_ExtensionForced ==
    Submitting /\ inflight[1].video # NoVideo
      => /\ inflight[1].config.resolution = "720p"
         /\ inflight[1].config.duration_seconds = 8

C10_LengthCheck ==
    /\ nScenes = 0 \/ nScenes > MAX_EXTENSIONS + 1
         => /\ pc \in {"entry", "failed"}
            /\ pc = "failed" => raised.kind = "ValueError" /\ raised.text \in LengthErrors
            /\ submits = 0
            /\ refreshes = 0
            /\ downloads = 0
            /\ operation = NoOperation
            /\ inflight = <<>>
    /\ nScenes \in 1..(MAX_EXTENSIONS + 1)
         => /\ raised.text \notin LengthErrors
            /\ pc # "entry" => scene_number >= 1

C10_Witness ==
    /\ pc = "failed"
    /\ nScenes = MAX_EXTENSIONS + 2
    /\ raised = Exc("ValueError", "Maximum scenes allowed", "", 0)

\* C11: a scene at 1-based position i whose prompt is missing or empty makes the
\* call fail with ValueError naming position i; the requests of scenes 1..i-1
\* are the only ones ever submitted.
C11_MissingPrompt ==
    /\ [](raised.text = "Scene is missing 'prompt' field"
            => /\ pc = "failed"
               /\ raised.kind = "ValueError"
               /\ raised.scene = scene_number
               /\ scene_number \in 1..nScenes
               /\ submits = scene_number - 1
               /\ pollsReturned = scene_number - 1
               /\ inflight = <<>>)
    /\ [][raised.text = "Scene is missing 'prompt' field" => submits' = submits]_vars

C11_Witness ==
    /\ pc = "failed"
    /\ raised = MissingPromptError(3)
    /\ submits = 2

\* C12: when the generation of scene i fails the chain stops there: the failure
\* ends the call, nothing happens after it (no submit of a later scene, no
\* download, no other remote call), no file is written and nothing is
\* returned; an operation that timed out is left as it is.
C12_ChainAborts ==
    /\ [](raised # NoExc => pc = "failed")
    /\ [](pc = "failed" /\ raised.text # "Video download failed"
            => /\ downloads = 0
               /\ files = {}
               /\ returned = NoPath
               /\ submits <= scene_number
               /\ submits >= scene_number - 1)
    /\ [](raised.kind = "TimeoutError" => pending = {scene_number})
    /\ [][pc = "failed" => UNCHANGED vars]_vars

C12_Witness ==
    /\ pc = "failed"
    /\ raised.kind = "TimeoutError"
    /\ scene_number = 2
    /\ submits = 2
    /\ nScenes = 3

(* ------------------------------------------------------------------ *)
(* Properties of the entry points (checked under SpecCalls)             *)
(* ------------------------------------------------------------------ *)
\* A scenes file that parses as JSON but has no usable "scenes" array.
InvalidScenesDocument(a) ==
    /\ a.call = "extend_from_scenes_file"
    /\ a.file = "json"
    /\ \/ a.top # "dict"
       \/ a.scenes = NoJson
       \/ a.scenes.type # "list"
       \/ a.scenes.size = 0

\* A request the service accepts.
WellFormed(config) ==
    /\ config.aspect_ratio \in {"16:9", "9:16"}
    /\ config.resolution \in {"720p", "1080p"}
    /\ config.duration_seconds \in {4, 6, 8}
    /\ config.resolution = "1080p" => config.duration_seconds = 8

\* C13: extend_from_scenes_file on a scenes file whose top level is not an
\* object, or whose "scenes" key is missing, is not an array or is an empty
\* array, ends with a ValueError, and no submit, refresh or download call is
\* made (the scene loop is never entered) and nothing happens afterwards.
C13_InvalidScenesFile ==
    /\ [](InvalidScenesDocument(args) /\ pc # "file_call"
            => /\ pc = "failed"
               /\ raised.kind = "ValueError"
               /\ scene_number = 0
               /\ submits = 0
               /\ pending = {}
               /\ refreshes = 0
               /\ downloads = 0
               /\ files = {})
    /\ [][InvalidScenesDocument(args) /\ pc = "failed" => UNCHANGED vars]_vars

C13_Witness ==
    /\ pc = "failed"
    /\ args.call = "extend_from_scenes_file"
    /\ args.file = "json"
    /\ args.scenes = [type |-> "str", size |-> 2]
    /\ raised.text = "'scenes' must be an array"

\* C14: no retry.  A submit is only ever made while no exception is raised;
\* generate_video and generate_video_with_image make at most one submit per
\* call (the only submit is the first), extend_from_scenes makes the k-th
\* submit for scene k, so at most one per scene; once an exception is raised
\* the number of submits never changes again.
C14_NoRetry ==
    /\ [](args.call \in GenCalls => submits <= 1)
    /\ [](args.call \in ChainCalls => submits <= scene_number /\ submits <= nScenes)
    /\ [][submits' # submits
            => /\ submits' = submits + 1
               /\ raised = NoExc
               /\ raised' = NoExc
               /\ args.call \in GenCalls => submits = 0
               /\ args.call \in ChainCalls => submits' = scene_number']_vars
    /\ [][raised # NoExc => submits' = submits]_vars

C14_Witness ==
    /\ pc = "gen_failed"
    /\ args.call = "generate_video"
    /\ raised.kind = "TimeoutError"
    /\ submits = 1
    /\ refreshes = MAX_POLL_ATTEMPTS

\* C15: the exception poll_operation raises is a TimeoutError or a RuntimeError,
\* and it leaves generate_video, generate_video_with_image and
\* extend_from_scenes as the same exception: a TimeoutError or RuntimeError that
\* is raised is never replaced, and the only TimeoutError a caller sees is the
\* poller's.
C15_PollErrorsUntouched ==
    /\ [][PollRunning /\ raised' # NoExc
            => raised'.kind \in {"TimeoutError", "RuntimeError"}]_vars
    /\ [][raised.kind \in {"TimeoutError", "RuntimeError"} => raised' = raised]_vars
    /\ [](raised.kind = "TimeoutError" => raised = PollTimeoutError)
    /\ [](pc = "gen_failed" /\ refreshes > 0 /\ downloads = 0
            => raised.kind \in {"TimeoutError", "RuntimeError"})

C15_Witness ==
    /\ pc = "gen_failed"
    /\ args.call = "generate_video_with_image"
    /\ raised = PollTimeoutError
    /\ attempts = MAX_POLL_ATTEMPTS

\* C16: every request handed to the service's submit call is well-formed:
\* aspect ratio 16:9 or 9:16, resolution 720p or 1080p, duration 4, 6 or 8
\* seconds, and 1080p only with 8 seconds.
C16_WellFormedRequests == Submitting => WellFormed(inflight[1].config)

\* The arguments generate_video rejects: an empty or whitespace-only prompt, or
\* parameters that fail a fatal rule of the validator after defaulting.
Rejected(a) ==
    /\ a.call = "generate_video"
    /\ \/ a.prompt \in {"", "   "}
       \/ GenVerdict(a.params) # "ok"

\* C17: generate_video called with an empty or whitespace-only prompt, or with
\* parameters the validator rejects, ends with a ValueError, having made no
\* submit, refresh or download call and written no file, and nothing happens
\* afterwards.
C17_RejectedBeforeAnyCall ==
    /\ [](Rejected(args) /\ pc # "gen_entry"
            => /\ pc = "gen_failed"
               /\ raised.kind = "ValueError"
               /\ submits = 0
               /\ pending = {}
               /\ sleeps = 0
               /\ refreshes = 0
               /\ downloads = 0
               /\ files = {}
               /\ returned = NoPath)
    /\ [][Rejected(args) /\ pc = "gen_failed" => UNCHANGED vars]_vars

C17_Witness ==
    /\ pc = "gen_failed"
    /\ args.call = "generate_video"
    /\ args.prompt = "   "
    /\ GenVerdict(args.params) = "ok"
    /\ raised.text = "Prompt cannot be empty or whitespace only"

\* C18: when poll_operation returns to generate_video or
\* generate_video_with_image a handle with no response or with an empty list of
\* videos, the call ends with the RuntimeError "API did not return any generated
\* videos", and no download is asked for and no file is written.
C18_NoVideosIsFailure ==
    /\ [][pc = "poll_returned" /\ args.call \in GenCalls /\ operation.response # "videos"
            => /\ pc' = "gen_failed"
               /\ raised' = NoVideosError
               /\ raised'.kind = "RuntimeError"
               /\ downloads' = 0
               /\ files' = {}
               /\ disk' = disk
               /\ returned' = NoPath]_vars
    /\ [](raised = NoVideosError
            => pc = "gen_failed" /\ downloads = 0 /\ files = {} /\ returned = NoPath)
    /\ [][raised = NoVideosError => UNCHANGED vars]_vars

C18_Witness ==
    /\ pc = "gen_failed"
    /\ args.call = "generate_video"
    /\ raised = NoVideosError
    /\ submits = 1
    /\ pollsReturned = 1

\* C19: a path is returned only after the one download, and only when a file is
\* at that path when download_video finishes; a download whose save returns
\* without raising and leaves no file at the path ends the call with a
\* RuntimeError and no path is returned.
C19_ReturnedFileExists ==
    /\ [](pc = "done" => returned # NoPath)
    /\ [](returned # NoPath => pc = "done" /\ returned \in disk /\ downloads = 1 /\ raised = NoExc)
    /\ [](raised.cause = "Video file was not created"
            => /\ pc \in {"failed", "gen_failed"}
               /\ raised.kind = "RuntimeError"
               /\ returned = NoPath
               /\ files = {}
               /\ downloads = 1)
    /\ [][downloads' # downloads /\ raised' = NoExc /\ files' = files
            => returned' \in disk]_vars

C19_Witness ==
    /\ pc = "gen_failed"
    /\ raised = DownloadFailure("Video file was not created")
    /\ downloads = 1
    /\ disk = {}

\* C20: generate_video_with_image called with a usable prompt and parameters:
\* when no file is at image_path the call ends with FileNotFoundError, when the
\* file there cannot be decoded as an image it ends with FileNotFoundError or
\* ValueError; in both cases no submit is made.
C20_ImageFailures ==
    /\ args.call = "generate_video_with_image"
    /\ args.image \in {"missing", "undecodable"}
    /\ PromptError(args) = NoExc
    /\ ParameterError(args) = NoExc
    /\ pc \notin {"gen_entry", "failed"}
    => /\ pc = "gen_failed"
       /\ submits = 0
       /\ args.image = "missing" => raised.kind = "FileNotFoundError"
       /\ args.image = "undecodable" => raised.kind \in {"FileNotFoundError", "ValueError"}

(* ------------------------------------------------------------------ *)
(* Properties of extend_from_scenes: the failures (checked under Spec)  *)
(* ------------------------------------------------------------------ *)
\* The failure kinds of the contract: InvalidParameter, Timeout, RemoteError
\* and IOFailure (OSError, alias IOError).
TypedFailures == {"ValueError", "TimeoutError", "RuntimeError", "OSError", "IOError"}

\* C21: when the poll of a scene returns a completed operation that has no
\* response or an empty list of videos, the chain ends there with a
\* RuntimeError, and no further scene is submitted.
C21_SceneResultValidated ==
    [][pc = "poll_returned" /\ operation.response # "videos"
        => pc' = "failed" /\ raised'.kind = "RuntimeError" /\ submits' = submits]_vars

\* C22: whenever extend_from_scenes fails, the exception the caller gets is a
\* ValueError, a TimeoutError, a RuntimeError or an I/O failure.
C22_TypedFailuresOnly == pc = "failed" => raised.kind \in TypedFailures

(* ------------------------------------------------------------------ *)
(* Properties of the helpers (checked under SpecUtils)                  *)
(* ------------------------------------------------------------------ *)
ValidateReturned == args.call = "validate_parameters" /\ pc = "validate_returned"
ValidateFailed == args.call = "validate_parameters" /\ pc = "failed" /\ raised.kind = "ValueError"
Supplied(key) == key \in DOMAIN args.params

\* All three parameters supplied, each from its supported set.
AllSupported(params) ==
    /\ {"aspect_ratio", "resolution", "duration_seconds"} \subseteq DOMAIN params
    /\ params.aspect_ratio \in {"16:9", "9:16"}
    /\ params.resolution \in {"720p", "1080p"}
    /\ params.duration_seconds \in {4, 6, 8}

\* C23: validate_parameters called with a supported aspect ratio, resolution
\* and duration fails, with ValueError, exactly when the resolution is 1080p
\* and the duration is not 8; otherwise it returns.
C23_SupportedCombinations ==
    args.call = "validate_parameters" /\ pc # "validate_call" /\ AllSupported(args.params)
    => IF args.params.resolution = "1080p" /\ args.params.duration_seconds # 8
       THEN ValidateFailed /\ raised.text = "1080p resolution only supports 8 second duration"
       ELSE ValidateReturned /\ raised = NoExc

C23_Witness ==
    /\ ValidateFailed
    /\ AllSupported(args.params)
    /\ args.params.resolution = "1080p"
    /\ args.params.duration_seconds = 6

\* C24: validate_parameters fails with ValueError whenever an aspect ratio is
\* supplied that is not 16:9 or 9:16, a resolution is supplied that is not 720p
\* or 1080p, or a duration is supplied that is not 4, 6 or 8.
C24_UnsupportedRejected ==
    /\ args.call = "validate_parameters"
    /\ pc # "validate_call"
    /\ \/ Supplied("aspect_ratio") /\ args.params.aspect_ratio \notin {"16:9", "9:16"}
       \/ Supplied("resolution") /\ args.params.resolution \notin {"720p", "1080p"}
       \/ Supplied("duration_seconds") /\ args.params.duration_seconds \notin {4, 6, 8}
    => ValidateFailed

\* C26: for a non-empty file name, get_output_path returns a direct child of
\* the output directory: the directory part is OUTPUT_DIR and the name is one
\* segment that is neither empty nor "." nor "..".
C26_InsideOutputRoot ==
    args.call = "get_output_path" /\ pc # "path_call" /\ args.filename # <<>>
    => /\ pc = "path_returned"
       /\ returned.dir = OUTPUT_DIR
       /\ returned.name \notin {<<>>, <<".">>, <<"..">>}
       /\ \A i \in DOMAIN returned.name : returned.name[i] # Sep

\* The calls of generate_filename that have returned.
Calls == IF result.kind = "generate_filename" THEN result.calls ELSE <<>>
SameButPrompt(c, d) == c.model = d.model /\ c.extension = d.extension /\ c.now = d.now

GenSupported(params) ==
    /\ GenAspectRatio(params) \in {"16:9", "9:16"}
    /\ GenResolution(params) \in {"720p", "1080p"}
    /\ GenDuration(params) \in {4, 6, 8}
    /\ GenResolution(params) = "1080p" => GenDuration(params) = 8

\* The two cases the validator only warns about.
SoftWarning(params) ==
    \/ GenModel(params) \notin SUPPORTED_MODELS
    \/ GenResolution(params) = "1080p" /\ GenAspectRatio(params) = "9:16"

\* C25: generate_video called with a usable prompt and a supported parameter
\* combination submits its request also when the model is not a known one and
\* when 1080p is combined with 9:16: the validator does not fail, and the
\* request carries that model, resolution and aspect ratio.
C25_WarningsNotFatal ==
    [][/\ pc = "gen_entry"
       /\ args.call = "generate_video"
       /\ PromptError(args) = NoExc
       /\ GenSupported(args.params)
       /\ SoftWarning(args.params)
       => /\ pc' = "gen_submitting"
          /\ raised' = NoExc
          /\ submits' = 1
          /\ inflight'[1].model = GenModel(args.params)
          /\ inflight'[1].config.resolution = GenResolution(args.params)
          /\ inflight'[1].config.aspect_ratio = GenAspectRatio(args.params)]_vars

C25_Witness ==
    /\ pc = "gen_submitting"
    /\ args.call = "generate_video"
    /\ inflight[1].model = "veo-9-experimental"
    /\ inflight[1].config.resolution = "1080p"
    /\ inflight[1].config.aspect_ratio = "9:16"
    /\ inflight[1].config.duration_seconds = 8

\* generate_video with the prompt "A cinematic shot of a lion", no model and no
\* output_filename has returned.  (The aspect ratio, resolution and duration
\* are no part of the file name.)
LionByDefault ==
    /\ pc = "done"
    /\ args.call = "generate_video"
    /\ args.prompt = "A cinematic shot of a lion"
    /\ args.params = EmptyDict
    /\ output_filename = NoFilename

ChildName(name) ==
    /\ name \notin {<<>>, <<".">>, <<"..">>}
    /\ \A i \in DOMAIN name : name[i] # Sep

\* C30: in generate_video the submit comes first, the refreshes follow it, and
\* the download, at most one, comes last: it is asked for only once
\* poll_operation has returned a done handle without error that holds a video;
\* a call that returns a path has written exactly one file, directly under the
\* output directory.
C30_SubmitPollDownload ==
    /\ [][args.call = "generate_video" /\ submits' # submits
            => submits = 0 /\ refreshes = 0 /\ pollsReturned = 0 /\ downloads = 0]_vars
    /\ [][args.call = "generate_video" /\ refreshes' > refreshes
            => submits = 1 /\ downloads = 0]_vars
    /\ [][args.call = "generate_video" /\ downloads' # downloads
            => /\ downloads = 0
               /\ submits = 1
               /\ pollsReturned = 1
               /\ operation.done
               /\ operation.error = NoError
               /\ operation.response = "videos"]_vars
    /\ [](args.call = "generate_video" /\ pc = "done"
            => /\ Cardinality(files) = 1
               /\ \A f \in files : f.path = returned
               /\ returned.dir = OUTPUT_DIR
               /\ ChildName(returned.name))

(* ------------------------------------------------------------------ *)
(* Properties of the command line (checked under SpecMain)              *)
(* ------------------------------------------------------------------ *)
\* C29: main ends with exit code 0 or 1; the code is 0 exactly when the
\* workflow returned a path, and 1 whenever an exception ended the constructor
\* or the workflow.
C29_ExitCode ==
    /\ [](pc = "exited"
            => /\ result.code \in {0, 1}
               /\ result.code = 0 <=> returned # NoPath
               /\ raised # NoExc => result.code = 1)
    /\ [][pc # "exited" /\ pc' = "exited"
            => result'.code = IF pc = "done" THEN 0 ELSE 1]_vars
    /\ [](result = NoResult <=> pc # "exited")

C29_Witness ==
    /\ pc = "exited"
    /\ result.code = 1
    /\ raised.kind = "TimeoutError"
    /\ args.call = "generate_video"

(* ------------------------------------------------------------------ *)
(* Properties of poll_operation: the rhythm of the loop (SpecPoll)      *)
(* ------------------------------------------------------------------ *)
\* C31: every status call comes right after one sleep of 10 seconds that was
\* taken while the handle showed not done: the sleeps are as many as the status
\* calls started (one more between a sleep and the call it precedes), each
\* lasts 10 seconds, and no status call is made for a handle that shows done.
C31_SleepThenRefresh ==
    /\ [](sleeps = refreshes + (IF pc = "poll_slept" THEN 1 ELSE 0))
    /\ [](slept = 10 * sleeps)
    /\ [][sleeps' = sleeps + 1
            => pc = "poll_head" /\ ~operation.done /\ pc' = "poll_slept"]_vars
    /\ [][refreshes' = refreshes + 1
            => pc = "poll_slept" /\ ~operation.done /\ sleeps = refreshes + 1]_vars

C31_Witness ==
    /\ pc = "poll_returned"
    /\ refreshes = 2
    /\ slept = 20
    /\ doneAt = 2

(* ------------------------------------------------------------------ *)
(* Properties of extend_from_scenes: the scenes in turn (Spec)          *)
(* ------------------------------------------------------------------ *)
\* C32: the request of the first scene, which carries no seed video, holds the
\* duration the scene's params give (8 when they give none) and the resolution
\* they give (720p when they give none); nothing is forced for it.
C32_FirstSceneUnforced ==
    Submitting /\ inflight[1].scene = 1
      => LET params == Get(scene[1], "params", EmptyDict)
         IN /\ inflight[1].video = NoVideo
            /\ inflight[1].config.duration_seconds = Get(params, "duration_seconds", 8)
            /\ inflight[1].config.resolution = Get(params, "resolution", "720p")

C32_Witness ==
    /\ Submitting
    /\ inflight[1].scene = 1
    /\ inflight[1].config.resolution = "1080p"
    /\ scene[1].params.resolution = "1080p"

(* ------------------------------------------------------------------ *)
(* Properties of validate_parameters: the order of the rules (SpecUtils) *)
(* ------------------------------------------------------------------ *)
\* The rules a call violates, in their order: 1 the aspect ratio, 2 the
\* resolution, 3 the duration, 4 1080p with a duration other than 8.
ViolatedRules(params) ==
    {i \in {1} : "aspect_ratio" \in DOMAIN params /\ params.aspect_ratio \notin {"16:9", "9:16"}}
    \cup {i \in {2} : "resolution" \in DOMAIN params /\ params.resolution \notin {"720p", "1080p"}}
    \cup {i \in {3} : "duration_seconds" \in DOMAIN params
                        /\ params.duration_seconds \notin {4, 6, 8}}
    \cup {i \in {4} : /\ "resolution" \in DOMAIN params
                      /\ params.resolution = "1080p"
                      /\ "duration_seconds" \in DOMAIN params
                      /\ params.duration_seconds # 8}
RuleFailure(i) ==
    CASE i = 1 -> "Invalid aspect_ratio"
      [] i = 2 -> "Invalid resolution"
      [] i = 3 -> "Invalid duration_seconds"
      [] i = 4 -> "1080p resolution only supports 8 second duration"
FirstRule(rules) == CHOOSE i \in rules : \A j \in rules : i <= j

\* C33: when a call of validate_parameters violates two or more of the rules,
\* it fails with the ValueError of the first violated one, in the order aspect
\* ratio, resolution, duration, 1080p-needs-8-seconds, whether or not a
\* warning was printed on the way.
C33_FirstViolatedRuleWins ==
    /\ args.call = "validate_parameters"
    /\ pc # "validate_call"
    /\ Cardinality(ViolatedRules(args.params)) >= 2
    => /\ ValidateFailed
       /\ raised.text = RuleFailure(FirstRule(ViolatedRules(args.params)))

(* ------------------------------------------------------------------ *)
(* Properties of generate_video: the defaults (SpecCalls)               *)
(* ------------------------------------------------------------------ *)
\* C34: the request generate_video submits holds, for the model, the aspect
\* ratio, the resolution and the duration, the value the caller passed, and the
\* default (veo-3.1-generate-preview, 16:9, 720p, 8) where the caller passed
\* none.
C34_DefaultsForUnsetOnly ==
    args.call = "generate_video" /\ pc = "gen_submitting"
    => /\ inflight[1].model = Get(args.params, "model", "veo-3.1-generate-preview")
       /\ inflight[1].config.aspect_ratio = Get(args.params, "aspect_ratio", "16:9")
       /\ inflight[1].config.resolution = Get(args.params, "resolution", "720p")
       /\ inflight[1].config.duration_seconds = Get(args.params, "duration_seconds", 8)

(* ------------------------------------------------------------------ *)
(* Properties of poll_operation: the last attempt (SpecPoll)            *)
(* ------------------------------------------------------------------ *)
\* C35: a handle that first shows done, without error, on the 180th status call
\* is returned, after exactly 180 status calls, and no TimeoutError is raised
\* for it; TimeoutError is raised only for a handle still not done after the
\* 180th status call.
C35_LastRefreshCounts ==
    /\ [](doneAt = 180 /\ operation.error = NoError => raised = NoExc)
    /\ [](pc = "poll_returned" /\ doneAt = 180 => refreshes = 180 /\ operation.done)
    /\ (doneAt = 180 /\ operation.error = NoError) ~> (pc = "poll_returned")
    /\ [](raised.kind = "TimeoutError" => ~operation.done /\ refreshes = 180)

C35_Witness ==
    /\ pc = "poll_returned"
    /\ doneAt = 180
    /\ refreshes = 180
    /\ operation.response = "videos"

(* ------------------------------------------------------------------ *)
(* Properties of extend_from_scenes: one scene after the other (Spec)   *)
(* ------------------------------------------------------------------ *)
\* C36: the prompt of a scene is looked at when its turn comes: when the call
\* fails because scene i, i >= 2, has no prompt, the scenes 1..i-1 have been
\* submitted and polled until each was done, i-1 submits in all, the artifact
\* of scene i-1 is at hand, and nothing was downloaded or written.
C36_PromptCheckedInTurn ==
    pc = "failed" /\ raised.text = "Scene is missing 'prompt' field" /\ raised.scene >= 2
    => /\ submits = raised.scene - 1
       /\ pollsReturned = raised.scene - 1
       /\ pending = {}
       /\ video_object = raised.scene - 1
       /\ downloads = 0
       /\ files = {}
       /\ disk = {}

C36_Witness ==
    /\ pc = "failed"
    /\ raised = MissingPromptError(2)
    /\ pollsReturned = 1
    /\ video_object = 1

(* ------------------------------------------------------------------ *)
(* Properties of poll_operation called again and again (SpecPolls)      *)
(* ------------------------------------------------------------------ *)
\* The poll_operation calls started so far, and the status calls of all of them.
PollCalls == pollsReturned + (IF pc = "poll_returned" THEN 0 ELSE 1)
TotalRefreshes == spent + (IF pc = "poll_call" THEN 0 ELSE refreshes)

\* C37: the attempt counter belongs to one poll_operation call: every call
\* starts it at 0 and it counts the status calls of this call only, so each call
\* times out only after 180 status calls of its own, however many the calls
\* before it made; N calls make up to 180 * N status calls without a timeout.
C37_OwnBudgetPerCall ==
    /\ [][pc = "poll_call" /\ pc' = "poll_head" => attempts' = 0]_vars
    /\ [](pc = "poll_head" => attempts = refreshes)
    /\ [](raised.kind = "TimeoutError" => refreshes = 180 /\ ~operation.done)
    /\ [](TotalRefreshes <= 180 * PollCalls)
    /\ [][pc = "poll_head" /\ pc' = "poll_slept" => refreshes < 180]_vars

C37_Witness ==
    /\ pc = "poll_returned"
    /\ pollsReturned = 2
    /\ spent = 180
    /\ refreshes = 180
    /\ raised = NoExc
====
